---------------------------- MODULE Spec2Model ----------------------------
(***************************************************************************)
(* Claude Punk backend (src/backend/server.js): RingBuffer,                *)
(* RawReplayBuffer, LineBuffer, SessionManager and the gateway handlers    *)
(* that drive them, as state machines.                                     *)
(*                                                                         *)
(* A JavaScript string is a sequence of one-character strings.  Each       *)
(* component has a specification of its own (SpecRing, SpecRaw, SpecLB,    *)
(* SpecSeg, Spec and FairSpec, SpecFW, SpecFile, SpecGw, SpecHb); the      *)
(* variables of the other components stay at their initial values there.   *)
(***************************************************************************)
EXTENDS Integers, Sequences, FiniteSets, TLC

VARIABLES
    \* RingBuffer (server.js 165-188)
    rbCapacity, rbBuffer, rbHead, rbSize,
    rbWritten,          \* history: every item written, in write order
    \* RawReplayBuffer (server.js 193-215)
    rawMaxBytes, rawChunks, rawTotalBytes,
    rawWritten,         \* history: every chunk written, in write order
    \* LineBuffer (server.js 219-334)
    rawPartials, timers, lbScheduled,
    lbLines,            \* onLine callback invocations, in order: <<stream, line>>
    lbFed,              \* history: concatenation of every chunk fed, per stream
    lbQuiet,            \* history: no timer fire, flush or destroy happened so far
    lbInput,            \* SpecSeg: the segment to feed ("none" once fed / unused)
    \* SessionManager, FileWatcher and gateway (server.js 338-582, 586-667, 761-1258)
    sessions,           \* this.sessions: id -> session record
    procs,              \* pty process handles: id -> [alive, signals, written]
    nextId,             \* number of ids handed out by crypto.randomUUID()
    purgeTimers,        \* ids whose 5000 ms registry-removal timer is pending
    autoRunTimers,      \* ids whose auto-launch timer is pending
    watchers,           \* FileWatcher.watchers keys
    exitEvents,         \* id -> number of 'session-exit' events emitted
    updateEvents,       \* id -> number of 'session.update' broadcasts on create
    lastCall,           \* the last handler that ran, with its inputs and result
    \* FileWatcher (server.js 586-667)
    debounceTimers,     \* ids whose watch entry has an armed debounce timer
    fwScheduled,        \* id -> number of debounce callbacks scheduled and not yet run
    latestCounts,       \* FileWatcher.latestCounts keys
    counting,           \* id -> number of countFiles() of fired timers in flight
    \* WebSocket gateway (server.js 761-1156)
    clients,            \* connection -> "closed" | "open" (wss.clients, readyState)
    alive,              \* connection -> ws._alive
    pinged,             \* history: connection -> a ping was sent and no pong came since
    sent,               \* the messages the last step sent, in order: [type, id, to, dims]
    resized,            \* history: id -> <<cols, rows>> of the last successful resize
    rawData,            \* id -> contents of the session's rawReplayBuffer
    pendingLine,        \* ids whose lineBuffer holds a partial line and a flush timer
    \* file commands of the WebSocket gateway (server.js 969-1115)
    fileCall,           \* the last file command: its inputs, its filesystem calls, its reply
    \* the directory walks (server.js 150-161, 593-651, 671-724)
    dirFiles,           \* the files under a workDir, each a path of entry names
    dirResult,          \* what the watch, countFiles and buildFileTree made of them
    \* the message router of the WebSocket gateway (server.js 855-1148)
    inbound,            \* the last inbound message: what it holds and its handling
    \* what the peers of the gateway have seen (server.js 770-778, 815-840)
    fwTrace,            \* history: id -> the bursts of filesystem events of its watch,
                        \* the recounts they started and the updates emitted
    server,             \* the process: its gateway, its HTTP server, shutdown signals
                        \* taken, armed forced-exit timers, exit code ("no": running)
    issuer,             \* the connection the inbound message came from (0: none)
    erred,              \* history: the connections that were sent an error reply
    received,           \* history: connection -> session id -> the terminal data
                        \* sent to the connection since it opened (none once closed)
    \* the router's catch block (server.js 1136-1147)
    thrown,             \* the last error a command threw: the failure, the user text
                        \* in its message, the wire code sent for it
    \* the browser side (frontend/src/services/websocket.js, BarScene)
    wsService,          \* the WebSocketService singleton, its sockets and timers
    bar                 \* the BarScene: patrons, occupiedSeats, replay reconciliation

ringVars == <<rbCapacity, rbBuffer, rbHead, rbSize, rbWritten>>
rawVars  == <<rawMaxBytes, rawChunks, rawTotalBytes, rawWritten>>
lbVars   == <<rawPartials, timers, lbScheduled, lbLines, lbFed, lbQuiet, lbInput>>
smVars   == <<sessions, procs, nextId, purgeTimers, autoRunTimers, watchers,
              exitEvents, updateEvents, lastCall>>
fwVars   == <<debounceTimers, fwScheduled, latestCounts, counting>>
gwVars   == <<clients, alive, pinged, sent, resized, rawData, pendingLine>>
edgeVars == <<thrown, wsService, bar>>
auxVars  == <<fwTrace, server, issuer, erred, received, edgeVars>>
fileVars == <<fileCall, dirFiles, dirResult, inbound, auxVars>>
vars     == <<ringVars, rawVars, lbVars, smVars, fwVars, gwVars, fileVars>>

-----------------------------------------------------------------------------
(* Generic helpers *)

Min(a, b) == IF a < b THEN a ELSE b

\* the last n elements of s (all of s when n >= Len(s))
LastN(s, n) == SubSeq(s, Len(s) - Min(n, Len(s)) + 1, Len(s))

RECURSIVE SeqsUpTo(_, _)
\* every sequence over S of length <= n
SeqsUpTo(S, n) ==
    IF n = 0 THEN {<<>>}
    ELSE LET shorter == SeqsUpTo(S, n - 1)
         IN  shorter \cup {Append(s, c) : s \in {t \in shorter : Len(t) = n - 1}, c \in S}

RECURSIVE SubsetsUpTo(_, _)
\* every subset of S with at most n elements
SubsetsUpTo(S, n) ==
    IF n = 0 THEN {{}}
    ELSE LET smaller == SubsetsUpTo(S, n - 1)
         IN  smaller \cup {t \cup {x} : t \in smaller, x \in S}

RECURSIVE Concat(_)
\* Array.prototype.join('') of a sequence of strings
Concat(ss) == IF ss = <<>> THEN <<>> ELSE Head(ss) \o Concat(Tail(ss))

-----------------------------------------------------------------------------
(* Bounds of the model *)

\* RingBuffer: largest capacity constructed, and number of writes explored
MaxCap == 3
MaxWrites == 5
\* RawReplayBuffer: largest maxBytes constructed, writes explored, chunk length
MaxRawCap == 3
MaxRawWrites == 3
MaxChunkLen == 2
\* gateway: number of WebSocket connections, and how many of them take part
\* in SpecGw
MaxConns == 3
MaxGwConns == 2
\* gateway: chunks of pty output per session
MaxOutputs == 1
\* file commands: longest filePath requested
MaxPathLen == 4
\* LineBuffer: total characters fed, longest chunk fed, longest segment of SpecSeg
MaxFedLen == 4
MaxFeedChunk == 2
MaxSegLen == 4
\* SessionManager: the quota the model runs with (CONFIG.maxSessions is 16 in
\* server.js 127; the code reads it only through the comparison in create),
\* and the number of ids crypto.randomUUID() hands out (one more than the quota)
maxSessions == 1
MaxIds == maxSessions + 1

-----------------------------------------------------------------------------
(* Section 2: RingBuffer *)

\* the structured line events written (stand-ins for outputMsg objects)
Items == {"a", "b"}

\* a slot of `new Array(capacity)` never assigned
Undefined == "undefined"

\* constructor(capacity)
RingNew(capacity) ==
    /\ rbCapacity = capacity
    /\ rbBuffer = [i \in 0..(capacity - 1) |-> Undefined]
    /\ rbHead = 0
    /\ rbSize = 0

\* write(item)
RingWrite(item) ==
    /\ rbBuffer' = [rbBuffer EXCEPT ![rbHead] = item]
    /\ rbHead' = (rbHead + 1) % rbCapacity
    /\ rbSize' = IF rbSize < rbCapacity THEN rbSize + 1 ELSE rbSize
    /\ UNCHANGED rbCapacity

\* readAll() with the start index taken as 0 instead of head - size (mod capacity)
RingReadAllNoWrap ==
    [i \in 1..rbSize |-> rbBuffer[(0 + (i - 1)) % rbCapacity]]

\* readAll()
RingReadAll ==
    IF rbSize = 0 THEN <<>>
    ELSE LET start == (rbHead - rbSize + rbCapacity) % rbCapacity
         IN  [i \in 1..rbSize |-> rbBuffer[(start + (i - 1)) % rbCapacity]]

-----------------------------------------------------------------------------
(* Section 2b: RawReplayBuffer *)

\* characters of raw pty chunks: one ASCII character and one two-byte character
TwoByteChar == "U+00E9"
RawAlphabet == {"a", TwoByteChar}

RECURSIVE ByteLength(_)
\* Buffer.byteLength(data, 'utf8')
ByteLength(data) ==
    IF data = <<>> THEN 0
    ELSE (IF Head(data) = TwoByteChar THEN 2 ELSE 1) + ByteLength(Tail(data))

RECURSIVE SumBytes(_)
SumBytes(chunks) ==
    IF chunks = <<>> THEN 0 ELSE ByteLength(Head(chunks)) + SumBytes(Tail(chunks))

\* the eviction written as `if` instead of `while`: at most one chunk is evicted
EvictOnce(chunks, total, maxBytes) ==
    IF total > maxBytes /\ Len(chunks) > 1
    THEN [chunks |-> Tail(chunks), total |-> total - ByteLength(Head(chunks))]
    ELSE [chunks |-> chunks, total |-> total]

RECURSIVE EvictNewest(_, _, _)
\* the eviction loop with pop() in place of shift(): the newest chunk goes
EvictNewest(chunks, total, maxBytes) ==
    IF total > maxBytes /\ Len(chunks) > 1
    THEN EvictNewest(SubSeq(chunks, 1, Len(chunks) - 1),
                     total - ByteLength(chunks[Len(chunks)]), maxBytes)
    ELSE [chunks |-> chunks, total |-> total]

RECURSIVE Evict(_, _, _)
\* while (this.totalBytes > this.maxBytes && this.chunks.length > 1) { shift }
Evict(chunks, total, maxBytes) ==
    IF total > maxBytes /\ Len(chunks) > 1
    THEN Evict(Tail(chunks), total - ByteLength(Head(chunks)), maxBytes)
    ELSE [chunks |-> chunks, total |-> total]

\* constructor(maxBytes)
RawNew(maxBytes) ==
    /\ rawMaxBytes = maxBytes
    /\ rawChunks = <<>>
    /\ rawTotalBytes = 0

\* write(data)
RawWrite(data) ==
    LET r == Evict(Append(rawChunks, data), rawTotalBytes + ByteLength(data), rawMaxBytes)
    IN  /\ rawChunks' = r.chunks
        /\ rawTotalBytes' = r.total
        /\ UNCHANGED rawMaxBytes

\* read()
RawRead == Concat(rawChunks)

-----------------------------------------------------------------------------
(* Section 3: LineBuffer -- the characters *)

ESC == "ESC"    \* \x1b
BEL == "BEL"    \* \x07
CR  == "CR"     \* \r
LF  == "LF"     \* \n
BSL == "BSL"    \* backslash, \x5c

\* [\x30-\x3f]: CSI parameter bytes
ParamBytes == {"0", "1", "2", "3", "4", "5", "6", "7", "8", "9",
               ":", ";", "<", "=", ">", "?"}
\* [\x20-\x2f]: CSI intermediate bytes
IntermediateBytes == {" ", "!", "#", "$", "%", "&", "'", "(", ")", "*",
                      "+", ",", "-", ".", "/", "DQUOTE"}
\* [A-LN-Za-ln-z]: the CSI final bytes the filter removes (every letter but M, m)
NonSGRFinalBytes ==
    {"A", "B", "C", "D", "E", "F", "G", "H", "I", "J", "K", "L",
     "N", "O", "P", "Q", "R", "S", "T", "U", "V", "W", "X", "Y", "Z",
     "a", "b", "c", "d", "e", "f", "g", "h", "i", "j", "k", "l",
     "n", "o", "p", "q", "r", "s", "t", "u", "v", "w", "x", "y", "z"}

\* the characters chunks are drawn from: the escape introducers and terminators,
\* one parameter byte, the SGR final byte m, the CSI final bytes J and M (both
\* also plain text), carriage return and newline
Alphabet == {ESC, "[", "]", "m", "M", "J", "1", BEL, BSL, CR, LF}

-----------------------------------------------------------------------------
(* Section 3: LineBuffer -- the static helpers *)

RECURSIVE OSCEnd(_, _)
\* [\s\S]*?(?:\x07|\x1b\\) from index j: the index of the last character of the
\* first terminator at or after j, 0 when there is none
OSCEnd(str, j) ==
    IF j > Len(str) THEN 0
    ELSE IF str[j] = BEL THEN j
    ELSE IF str[j] = ESC /\ j + 1 <= Len(str) /\ str[j + 1] = BSL THEN j + 1
    ELSE OSCEnd(str, j + 1)

RECURSIVE StripOSCFrom(_, _)
StripOSCFrom(str, i) ==
    IF i > Len(str) THEN <<>>
    ELSE IF str[i] = ESC /\ i + 1 <= Len(str) /\ str[i + 1] = "]"
              /\ OSCEnd(str, i + 2) # 0
         THEN StripOSCFrom(str, OSCEnd(str, i + 2) + 1)
         ELSE <<str[i]>> \o StripOSCFrom(str, i + 1)

\* str.replace(/\x1b\][\s\S]*?(?:\x07|\x1b\\)/g, '')
StripOSC(str) == StripOSCFrom(str, 1)

RECURSIVE SkipClass(_, _, _)
\* greedy [class]* from index j: the first index at or after j not in the class
SkipClass(str, j, class) ==
    IF j <= Len(str) /\ str[j] \in class THEN SkipClass(str, j + 1, class) ELSE j

\* \x1b\[[\x30-\x3f]*[\x20-\x2f]*[finals] at index i: the index of the final byte,
\* 0 when the pattern does not match at i.  The three classes are disjoint, so
\* backtracking into the greedy runs never finds another match.
CSIEnd(str, i, finals) ==
    IF str[i] = ESC /\ i + 1 <= Len(str) /\ str[i + 1] = "["
    THEN LET q == SkipClass(str, SkipClass(str, i + 2, ParamBytes), IntermediateBytes)
         IN  IF q <= Len(str) /\ str[q] \in finals THEN q ELSE 0
    ELSE 0

RECURSIVE StripCSIFrom(_, _)
StripCSIFrom(str, i) ==
    IF i > Len(str) THEN <<>>
    ELSE IF CSIEnd(str, i, NonSGRFinalBytes) # 0
         THEN StripCSIFrom(str, CSIEnd(str, i, NonSGRFinalBytes) + 1)
         ELSE <<str[i]>> \o StripCSIFrom(str, i + 1)

\* str.replace(/\x1b\[[\x30-\x3f]*[\x20-\x2f]*[A-LN-Za-ln-z]/g, '')
StripCSI(str) == StripCSIFrom(str, 1)

RECURSIVE StripSingleFrom(_, _)
StripSingleFrom(str, i) ==
    IF i > Len(str) THEN <<>>
    ELSE IF str[i] = ESC /\ i + 1 <= Len(str) /\ str[i + 1] \notin {"[", "]"}
         THEN StripSingleFrom(str, i + 2)
         ELSE <<str[i]>> \o StripSingleFrom(str, i + 1)

\* str.replace(/\x1b[^[\]]/g, '')
StripSingle(str) == StripSingleFrom(str, 1)

\* static stripNonSGR(str)
stripNonSGR(str) == StripSingle(StripCSI(StripOSC(str)))

RECURSIVE LastIndexOf(_, _, _)
\* str.lastIndexOf(c) searched downwards from index i; 0 stands for -1
LastIndexOf(str, c, i) ==
    IF i = 0 THEN 0 ELSE IF str[i] = c THEN i ELSE LastIndexOf(str, c, i - 1)

RECURSIVE Split(_, _)
\* str.split(sep): the segments between the occurrences of the character sep
Split(str, sep) ==
    LET k == LastIndexOf(str, sep, Len(str))
    IN  IF k = 0 THEN <<str>>
        ELSE Append(Split(SubSeq(str, 1, k - 1), sep), SubSeq(str, k + 1, Len(str)))

\* handleCR applied to one segment: the text after the last \r
AfterLastCR(seg) ==
    LET crIdx == LastIndexOf(seg, CR, Len(seg))
    IN  IF crIdx # 0 THEN SubSeq(seg, crIdx + 1, Len(seg)) ELSE seg

RECURSIVE Join(_, _)
\* segments.join(sep)
Join(segs, sep) ==
    IF Len(segs) = 1 THEN segs[1]
    ELSE Join(SubSeq(segs, 1, Len(segs) - 1), sep) \o <<sep>> \o segs[Len(segs)]

\* static handleCR(str)
handleCR(str) ==
    LET segments == Split(str, LF)
    IN  Join([i \in 1..Len(segments) |-> AfterLastCR(segments[i])], LF)

\* rawLine.replace(/\r$/, '')
TrimCR(rawLine) ==
    IF rawLine # <<>> /\ rawLine[Len(rawLine)] = CR
    THEN SubSeq(rawLine, 1, Len(rawLine) - 1)
    ELSE rawLine

\* the cleanup of one raw line, as feed, the flush timer and flush all write it:
\* LineBuffer.handleCR(LineBuffer.stripNonSGR(rawLine.replace(/\r$/, '')))
CleanLine(rawLine) == handleCR(stripNonSGR(TrimCR(rawLine)))

-----------------------------------------------------------------------------
(* Section 3: LineBuffer -- the instance *)

\* the stream keys feed and flush are called with (server.js 400, 408)
Streams == {"stdout"}

\* the characters SpecLB feeds: enough for a line break, a carriage return and an
\* escape sequence to be cut by a chunk boundary
FeedAlphabet == {ESC, "[", "J", CR, LF}

\* constructor(onLine); an absent Map entry reads as '' everywhere it is used
LineBufferNew ==
    /\ rawPartials = [st \in Streams |-> <<>>]
    /\ timers = {}
    /\ lbScheduled = [st \in Streams |-> 0]
    /\ lbLines = <<>>

\* `this.onLine(stream, cleaned)` with the length guard dropped
EmitAlways(lines, stream, cleaned) == Append(lines, <<stream, cleaned>>)

\* if (cleaned.length > 0) this.onLine(stream, cleaned)
Emit(lines, stream, cleaned) ==
    IF Len(cleaned) > 0 THEN Append(lines, <<stream, cleaned>>) ELSE lines

RECURSIVE EmitAll(_, _, _)
\* for (const rawLine of rawLines) { clean; emit }
EmitAll(lines, stream, rawLines) ==
    IF rawLines = <<>> THEN lines
    ELSE EmitAll(Emit(lines, stream, CleanLine(Head(rawLines))), stream, Tail(rawLines))

\* feed's split with the partial stored cleaned instead of raw
FeedSplitCleanedPartial(existing, rawChunk) ==
    LET rawLines == Split(existing \o rawChunk, LF)
    IN  [lines   |-> SubSeq(rawLines, 1, Len(rawLines) - 1),
         partial |-> CleanLine(rawLines[Len(rawLines)])]

\* feed: combined = existing + rawChunk; rawLines = combined.split('\n');
\* rawPartial = rawLines.pop()
FeedSplit(existing, rawChunk) ==
    LET rawLines == Split(existing \o rawChunk, LF)
    IN  [lines   |-> SubSeq(rawLines, 1, Len(rawLines) - 1),
         partial |-> rawLines[Len(rawLines)]]

\* feed's first step with the clearTimeout dropped: the Map entry is deleted,
\* the scheduled callback stays
ForgetTimer(stream) == lbScheduled[stream]

\* existingTimer = this.timers.get(stream); if (existingTimer) clearTimeout(...):
\* the callbacks of the stream still scheduled afterwards
ClearTimer(stream) ==
    IF stream \in timers THEN lbScheduled[stream] - 1 ELSE lbScheduled[stream]

\* feed(stream, rawChunk)
Feed(stream, rawChunk) ==
    LET r == FeedSplit(rawPartials[stream], rawChunk)
    IN  /\ lbLines' = EmitAll(lbLines, stream, r.lines)
        /\ rawPartials' = [rawPartials EXCEPT ![stream] = r.partial]
        /\ timers' = IF Len(r.partial) > 0
                     THEN (timers \ {stream}) \cup {stream}
                     ELSE timers \ {stream}
        /\ lbScheduled' = [lbScheduled EXCEPT ![stream] =
                               IF Len(r.partial) > 0 THEN ClearTimer(stream) + 1
                               ELSE ClearTimer(stream)]

\* the cleanup flush and the flush timer share: emit the pending partial, clear it
EmitRemaining(stream) ==
    LET remaining == rawPartials[stream]
    IN  IF Len(remaining) > 0
        THEN /\ rawPartials' = [rawPartials EXCEPT ![stream] = <<>>]
             /\ lbLines' = Emit(lbLines, stream, CleanLine(remaining))
        ELSE UNCHANGED <<rawPartials, lbLines>>

\* the setTimeout callback armed by feed
FlushTimerFire(stream) ==
    /\ lbScheduled[stream] > 0
    /\ lbScheduled' = [lbScheduled EXCEPT ![stream] = @ - 1]
    /\ timers' = timers \ {stream}
    /\ EmitRemaining(stream)

\* flush(stream)
Flush(stream) ==
    /\ timers' = timers \ {stream}
    /\ lbScheduled' = [lbScheduled EXCEPT ![stream] = ClearTimer(stream)]
    /\ EmitRemaining(stream)

\* destroy()
Destroy ==
    /\ timers' = {}
    /\ lbScheduled' = [st \in Streams |-> ClearTimer(st)]
    /\ rawPartials' = [st \in Streams |-> <<>>]
    /\ UNCHANGED lbLines

-----------------------------------------------------------------------------
(* Section 4: SessionManager -- inputs and environment *)

\* session ids: the k-th crypto.randomUUID() is k.  0 stands for a missing or
\* empty sessionId in a message.
Ids == 1..MaxIds

\* the WebSocket connections
Conns == 1..MaxConns

\* no message arrived yet
NoInbound == [json |-> "-", type |-> "-", payload |-> "-", fields |-> {},
              reply |-> "-", calls |-> "-"]

\* fileCall before any file command
NoFileCall == [op |-> "none", reply |-> "-"]

\* the workDir values requests carry: empty, a path that does not exist, a
\* regular file, a directory
WorkDirs == {"", "/missing", "/file", "/dir"}

\* fs.existsSync(workDir)
ExistsSync(workDir) == workDir \in {"/file", "/dir", "/Maximum sessions.txt"}

\* fs.statSync(workDir).isDirectory()
IsDirectory(workDir) == workDir = "/dir"

\* the agentType values requests carry; "undefined" is an absent field
AgentTypes == {"claude", "bogus"}
NoAgentType == "undefined"

\* CONFIG.agentCommands[agentType] is defined
KnownAgent(agentType) == agentType \in {"claude", "codex"}

\* CONFIG.autoRunClaude (its default)
autoRunClaude == TRUE

\* CONFIG.ptyDefaultCols, CONFIG.ptyDefaultRows
ptyDefaultCols == 120
ptyDefaultRows == 40

\* the exit code a pty process reports (a value other than null)
ExitCodes == {"0"}

NoCall == [op |-> "none", id |-> 0, workDir |-> "-", err |-> "-", reply |-> "-"]

\* sessions that count as live: state !== 'terminated'
NonTerminated == {id \in DOMAIN sessions : sessions[id].state # "terminated"}

-----------------------------------------------------------------------------
(* Section 4: SessionManager.create *)

\* create's validation with the quota compared by > instead of >=
ValidateOffByOne(workDir, agentType, size) ==
    IF workDir = "" THEN "WORKDIR_REQUIRED"
    ELSE IF ~ExistsSync(workDir) THEN "WORKDIR_NOT_FOUND"
    ELSE IF ~IsDirectory(workDir) THEN "NOT_A_DIRECTORY"
    ELSE IF size > maxSessions THEN "MAX_SESSIONS"
    ELSE IF ~KnownAgent(agentType) THEN "UNKNOWN_AGENT"
    ELSE "OK"

\* create's validation with the agentType check moved before the quota check
ValidateAgentFirst(workDir, agentType, size) ==
    IF workDir = "" THEN "WORKDIR_REQUIRED"
    ELSE IF ~ExistsSync(workDir) THEN "WORKDIR_NOT_FOUND"
    ELSE IF ~IsDirectory(workDir) THEN "NOT_A_DIRECTORY"
    ELSE IF ~KnownAgent(agentType) THEN "UNKNOWN_AGENT"
    ELSE IF size >= maxSessions THEN "MAX_SESSIONS"
    ELSE "OK"

\* create's validation with the quota check moved before the workDir checks
ValidateQuotaFirst(workDir, agentType, size) ==
    IF workDir = "" THEN "WORKDIR_REQUIRED"
    ELSE IF size >= maxSessions THEN "MAX_SESSIONS"
    ELSE IF ~ExistsSync(workDir) THEN "WORKDIR_NOT_FOUND"
    ELSE IF ~IsDirectory(workDir) THEN "NOT_A_DIRECTORY"
    ELSE IF ~KnownAgent(agentType) THEN "UNKNOWN_AGENT"
    ELSE "OK"

\* create's validation: the first check that throws, "OK" when none does.
\* size is this.sessions.size.
Validate(workDir, agentType, size) ==
    IF workDir = "" THEN "WORKDIR_REQUIRED"
    ELSE IF ~ExistsSync(workDir) THEN "WORKDIR_NOT_FOUND"
    ELSE IF ~IsDirectory(workDir) THEN "NOT_A_DIRECTORY"
    ELSE IF size >= maxSessions THEN "MAX_SESSIONS"
    ELSE IF ~KnownAgent(agentType) THEN "UNKNOWN_AGENT"
    ELSE "OK"

\* what create(workDir, label, agentType) ends with: a validation error,
\* "SPAWN_FAILED" when pty.spawn throws, "OK"
CreateOutcome(workDir, agentType, spawnOk) ==
    LET v == Validate(workDir, agentType, Cardinality(DOMAIN sessions))
    IN  IF v # "OK" THEN v ELSE IF spawnOk THEN "OK" ELSE "SPAWN_FAILED"

\* the session object create() registers (label, createdAt and the three
\* buffers, which the buffers' own specifications model, are left out)
NewSession(workDir, agentType) ==
    [state |-> "active", workDir |-> workDir, agentType |-> agentType,
     exitCode |-> "null", forceKillTimer |-> FALSE,
     cols |-> ptyDefaultCols, rows |-> ptyDefaultRows]

\* the pty process create() spawns
NewProc == [alive |-> TRUE, signals |-> {}, written |-> <<>>]

\* create drawing the lowest id that is not in the registry instead of a
\* fresh one
CreateReusesId(workDir, agentType, spawnOk) ==
    LET out == CreateOutcome(workDir, agentType, spawnOk)
        id  == CHOOSE i \in Ids : i \notin DOMAIN sessions
                                   /\ \A j \in Ids : j < i => j \in DOMAIN sessions
    IN  /\ out \in {"OK", "SPAWN_FAILED"} => nextId < MaxIds
        /\ nextId' = IF out \in {"OK", "SPAWN_FAILED"} THEN nextId + 1 ELSE nextId
        /\ IF out = "OK"
           THEN /\ sessions' = [i \in DOMAIN sessions \cup {id} |->
                                  IF i = id THEN NewSession(workDir, agentType)
                                  ELSE sessions[i]]
                /\ procs' = [i \in DOMAIN procs \cup {id} |->
                               IF i = id THEN NewProc ELSE procs[i]]
                /\ autoRunTimers' = IF autoRunClaude THEN autoRunTimers \cup {id}
                                    ELSE autoRunTimers
           ELSE UNCHANGED <<sessions, procs, autoRunTimers>>

\* create(workDir, label, agentType): the state change.  The id is drawn
\* before the spawn, so a failed spawn uses one up.
Create(workDir, agentType, spawnOk) ==
    LET out == CreateOutcome(workDir, agentType, spawnOk)
        id  == nextId + 1
    IN  /\ out \in {"OK", "SPAWN_FAILED"} => nextId < MaxIds
        /\ nextId' = IF out \in {"OK", "SPAWN_FAILED"} THEN id ELSE nextId
        /\ IF out = "OK"
           THEN /\ sessions' = [i \in DOMAIN sessions \cup {id} |->
                                  IF i = id THEN NewSession(workDir, agentType)
                                  ELSE sessions[i]]
                /\ procs' = [i \in DOMAIN procs \cup {id} |->
                               IF i = id THEN NewProc ELSE procs[i]]
                /\ autoRunTimers' = IF autoRunClaude THEN autoRunTimers \cup {id}
                                    ELSE autoRunTimers
           ELSE UNCHANGED <<sessions, procs, autoRunTimers>>

-----------------------------------------------------------------------------
(* Section 4: SessionManager.kill, the exit handler and the timers *)

\* kill's guards with the state check dropped
KillAppliesAnyState(id) == id \in DOMAIN sessions

\* kill(id) goes past its two early returns
KillApplies(id) == id \in DOMAIN sessions /\ sessions[id].state # "terminated"

\* the body of kill for every id of S: mark terminated, send the graceful
\* signal (SIGTERM, or taskkill /T), arm the 3000 ms forced-kill timer
KillEach(S) ==
    /\ sessions' = [i \in DOMAIN sessions |->
                      IF i \in S
                      THEN [sessions[i] EXCEPT !.state = "terminated",
                                               !.forceKillTimer = TRUE]
                      ELSE sessions[i]]
    /\ procs' = [i \in DOMAIN procs |->
                   IF i \in S
                   THEN [procs[i] EXCEPT !.signals = @ \cup {"SIGTERM"}]
                   ELSE procs[i]]

\* kill(id)
Kill(id) == KillEach(IF KillApplies(id) THEN {id} ELSE {})

\* killAll(): kill every session whose state is not 'terminated'
KillAll == KillEach({id \in DOMAIN sessions : KillApplies(id)})

\* FileWatcher.watch(sessionId, workDir): the registry entry, its debounce
\* timer not armed yet
Watch(id) ==
    /\ watchers' = watchers \cup {id}
    /\ UNCHANGED fwVars

\* unwatch that deletes the registry entry and leaves its timer armed
UnwatchKeepsTimer(id) ==
    /\ watchers' = watchers \ {id}
    /\ latestCounts' = IF id \in watchers THEN latestCounts \ {id} ELSE latestCounts
    /\ UNCHANGED <<debounceTimers, fwScheduled, counting>>

\* debouncedUpdate with the clearTimeout dropped: the callback scheduled
\* before stays scheduled
ForgetDebounce(id) == fwScheduled[id]

\* if (entry.debounceTimer) clearTimeout(entry.debounceTimer): the callbacks
\* of the entry still scheduled afterwards (clearing a timer that already
\* fired cancels nothing)
ClearDebounce(id) ==
    IF id \in debounceTimers THEN fwScheduled[id] - 1 ELSE fwScheduled[id]

\* FileWatcher.unwatch(sessionId): nothing for an id without an entry, else
\* clear the debounce timer, close the watcher, delete the entry and the count
Unwatch(id) ==
    IF id \notin watchers
    THEN UNCHANGED <<watchers, fwVars>>
    ELSE /\ debounceTimers' = debounceTimers \ {id}
         /\ fwScheduled' = [fwScheduled EXCEPT ![id] = ClearDebounce(id)]
         /\ watchers' = watchers \ {id}
         /\ latestCounts' = latestCounts \ {id}
         /\ UNCHANGED counting

\* FileWatcher.unwatchAll(): unwatch every key of the registry
UnwatchAll ==
    /\ debounceTimers' = debounceTimers \ watchers
    /\ fwScheduled' = [id \in Ids |-> IF id \in watchers THEN ClearDebounce(id)
                                      ELSE fwScheduled[id]]
    /\ latestCounts' = latestCounts \ watchers
    /\ watchers' = {}
    /\ UNCHANGED counting

\* the exit handler without the registry-removal timer
OnExitNoPurge(id, exitCode) ==
    /\ sessions' = IF id \in DOMAIN sessions
                   THEN [sessions EXCEPT ![id].state = "terminated",
                                         ![id].exitCode = exitCode,
                                         ![id].forceKillTimer = FALSE]
                   ELSE sessions
    /\ exitEvents' = [exitEvents EXCEPT ![id] = @ + 1]
    /\ UNCHANGED purgeTimers

\* the exit handler without the clearTimeout of the forced-kill timer
OnExitKeepsForceKill(id, exitCode) ==
    /\ sessions' = IF id \in DOMAIN sessions
                   THEN [sessions EXCEPT ![id].state = "terminated",
                                         ![id].exitCode = exitCode]
                   ELSE sessions
    /\ exitEvents' = [exitEvents EXCEPT ![id] = @ + 1]
    /\ purgeTimers' = purgeTimers \cup {id}

\* the proc.onExit handler of session id (the LineBuffer flush and destroy it
\* starts with act on the session's own buffers, modelled in SpecLB)
OnExit(id, exitCode) ==
    /\ sessions' = IF id \in DOMAIN sessions
                   THEN [sessions EXCEPT ![id].state = "terminated",
                                         ![id].exitCode = exitCode,
                                         ![id].forceKillTimer = FALSE]
                   ELSE sessions
    /\ exitEvents' = [exitEvents EXCEPT ![id] = @ + 1]
    /\ purgeTimers' = purgeTimers \cup {id}

\* the pty process of session id exits, on its own or after a signal
ProcExit(id, exitCode) ==
    /\ id \in DOMAIN procs
    /\ procs[id].alive
    /\ procs' = [procs EXCEPT ![id].alive = FALSE]
    /\ OnExit(id, exitCode)
    /\ lastCall' = [NoCall EXCEPT !.op = "proc.exit"]
    /\ UNCHANGED <<nextId, autoRunTimers, watchers, fwVars, updateEvents>>

\* the forced-kill timer armed by kill fires: SIGKILL (or taskkill /F /T)
ForceKillFire(id) ==
    /\ id \in DOMAIN sessions
    /\ sessions[id].forceKillTimer
    /\ sessions' = [sessions EXCEPT ![id].forceKillTimer = FALSE]
    /\ procs' = [procs EXCEPT ![id].signals = @ \cup {"SIGKILL"}]
    /\ lastCall' = [NoCall EXCEPT !.op = "timer.forceKill"]
    /\ UNCHANGED <<nextId, purgeTimers, autoRunTimers, watchers, fwVars, exitEvents,
                   updateEvents>>

\* the 5000 ms timer set by the exit handler fires: this.sessions.delete(id).
\* The session object held the last reference to the exited process's handle.
PurgeFire(id) ==
    /\ id \in purgeTimers
    /\ purgeTimers' = purgeTimers \ {id}
    /\ sessions' = [i \in DOMAIN sessions \ {id} |-> sessions[i]]
    /\ procs' = [i \in DOMAIN procs \ {id} |-> procs[i]]
    /\ lastCall' = [NoCall EXCEPT !.op = "timer.purge"]
    /\ UNCHANGED <<nextId, autoRunTimers, watchers, fwVars, exitEvents, updateEvents>>

\* the auto-launch timer's callback without its state check
AutoRunFireUnchecked(id) ==
    /\ id \in autoRunTimers
    /\ autoRunTimers' = autoRunTimers \ {id}
    /\ procs' = IF id \in DOMAIN sessions
                THEN [procs EXCEPT ![id].written =
                        Append(@, <<sessions[id].agentType, LF>>)]
                ELSE procs
    /\ lastCall' = [NoCall EXCEPT !.op = "timer.autoRun"]
    /\ UNCHANGED <<sessions, nextId, purgeTimers, watchers, fwVars, exitEvents,
                   updateEvents>>

\* the auto-launch timer fires.  It reads the state of the session object it
\* closed over; an object already deleted from the registry is terminated, as
\* only the exit handler schedules the deletion.
AutoRunFire(id) ==
    /\ id \in autoRunTimers
    /\ autoRunTimers' = autoRunTimers \ {id}
    /\ procs' = IF id \in DOMAIN sessions /\ sessions[id].state = "active"
                THEN [procs EXCEPT ![id].written =
                        Append(@, <<sessions[id].agentType, LF>>)]
                ELSE procs
    /\ lastCall' = [NoCall EXCEPT !.op = "timer.autoRun"]
    /\ UNCHANGED <<sessions, nextId, purgeTimers, watchers, fwVars, exitEvents,
                   updateEvents>>

-----------------------------------------------------------------------------
(* Section 4: SessionManager.sendPrompt, writeRaw *)

\* getSession without the state check
GetSessionAnyState(id) ==
    IF id \notin DOMAIN sessions THEN "SESSION_NOT_FOUND" ELSE "OK"

\* getSession(id): the error it throws ("OK": it returns the session)
GetSession(id) ==
    IF id \notin DOMAIN sessions THEN "SESSION_NOT_FOUND"
    ELSE IF sessions[id].state = "terminated" THEN "SESSION_TERMINATED"
    ELSE "OK"

\* session.proc.write(text) when getSession returned the session
ProcWrite(id, text) ==
    procs' = IF GetSession(id) = "OK"
             THEN [procs EXCEPT ![id].written = Append(@, text)]
             ELSE procs

\* sendPrompt that writes the prompt as it is
SendPromptNoNewline(id, prompt) ==
    /\ ProcWrite(id, prompt)
    /\ lastCall' = [NoCall EXCEPT !.op = "sm.sendPrompt", !.id = id,
                                  !.err = GetSession(id)]
    /\ UNCHANGED <<sessions, nextId, purgeTimers, autoRunTimers, watchers, fwVars,
                   exitEvents, updateEvents>>

\* sendPrompt(id, prompt)
SendPrompt(id, prompt) ==
    /\ ProcWrite(id, prompt \o <<LF>>)
    /\ lastCall' = [NoCall EXCEPT !.op = "sm.sendPrompt", !.id = id,
                                  !.err = GetSession(id)]
    /\ UNCHANGED <<sessions, nextId, purgeTimers, autoRunTimers, watchers, fwVars,
                   exitEvents, updateEvents>>

\* writeRaw(id, data)
WriteRaw(id, data) ==
    /\ ProcWrite(id, data)
    /\ lastCall' = [NoCall EXCEPT !.op = "sm.writeRaw", !.id = id,
                                  !.err = GetSession(id)]
    /\ UNCHANGED <<sessions, nextId, purgeTimers, autoRunTimers, watchers, fwVars,
                   exitEvents, updateEvents>>

-----------------------------------------------------------------------------
(* Section 3: shouldExclude; Sections 5-6: the walks that apply it *)

\* An entry name is a sequence of pieces; a dot is always a piece of its own,
\* so name.startsWith('.') is Head(name) = ".".

\* EXCLUDED_DIRS
EXCLUDED_DIRS ==
    { <<".", "git">>, <<"node_modules">>, <<"vendor">>, <<"__pycache__">>,
      <<".", "venv">>, <<"venv">>, <<".", "tox">>, <<".", "mypy_cache">>,
      <<".", "pytest_cache">>, <<"dist">>, <<"build">>, <<".", "next">>,
      <<".", "nuxt">>, <<"coverage">>, <<".", "DS_Store">>,
      <<"Thumbs", ".", "db">> }

\* shouldExclude without the exception for .claude
shouldExcludeEveryDotName(name) ==
    \/ name \in EXCLUDED_DIRS
    \/ name # <<>> /\ Head(name) = "."

\* shouldExclude(name)
shouldExclude(name) ==
    \/ name \in EXCLUDED_DIRS
    \/ name # <<>> /\ Head(name) = "." /\ name # <<".", "claude">>

\* CONFIG.fileTreeMaxDepth
fileTreeMaxDepth == 10

\* the walks have run on no directory yet (ran: the walks that have run)
NoDirResult == [ran |-> {}, watched |-> {}, fileCount |-> 0, tree |-> {}]

\* the chokidar `ignored` callback of watch: rel = path.relative(workDir,
\* filePath), split into its parts; (the parts of) the path of a file under
\* workDir
Ignored(rel) == \E k \in 1..Len(rel) : shouldExclude(rel[k])

\* fs.promises.readdir(d): the names of the entries of directory d
Readdir(files, d) ==
    {f[Len(d) + 1] : f \in {g \in files : Len(g) > Len(d) /\ SubSeq(g, 1, Len(d)) = d}}

\* entry.isFile(), entry.isDirectory() of the entry at path p
EntryIsFile(files, p) == p \in files
EntryIsDirectory(files, p) ==
    \E g \in files : Len(g) > Len(p) /\ SubSeq(g, 1, Len(p)) = p

RECURSIVE Walk(_, _), WalkEntries(_, _, _)
\* countFiles: the loop over the entries of d
WalkEntries(files, d, entries) ==
    IF entries = {} THEN 0
    ELSE LET name == CHOOSE e \in entries : TRUE
             full == Append(d, name)
         IN  (IF shouldExclude(name) THEN 0
              ELSE IF EntryIsDirectory(files, full) THEN Walk(files, full)
              ELSE IF EntryIsFile(files, full) THEN 1
              ELSE 0)
             + WalkEntries(files, d, entries \ {name})

\* countFiles: walk(d), as the number it adds to count
Walk(files, d) == WalkEntries(files, d, Readdir(files, d))

\* countFiles(dir)
CountFiles(files) == Walk(files, <<>>)

RECURSIVE BuildFileTree(_, _, _)
\* buildFileTree(dir, currentDepth): the relative paths of the file nodes of
\* the tree it returns
BuildFileTree(files, dir, currentDepth) ==
    IF currentDepth >= fileTreeMaxDepth THEN {}
    ELSE LET entries == {name \in Readdir(files, dir) : ~shouldExclude(name)}
         IN  UNION { IF EntryIsDirectory(files, Append(dir, name))
                     THEN BuildFileTree(files, Append(dir, name), currentDepth + 1)
                     ELSE IF EntryIsFile(files, Append(dir, name))
                     THEN {Append(dir, name)}
                     ELSE {} : name \in entries }

\* the watch of the directory is set up: chokidar reports 'add' for every
\* file its `ignored` callback lets through
WatchDir ==
    /\ "watch" \notin dirResult.ran
    /\ dirResult' = [dirResult EXCEPT !.ran = @ \cup {"watch"},
                                      !.watched = {f \in dirFiles : ~Ignored(f)}]
    /\ UNCHANGED <<fileCall, dirFiles, auxVars>>

\* countFiles(workDir) runs
CountDir ==
    /\ "count" \notin dirResult.ran
    /\ dirResult' = [dirResult EXCEPT !.ran = @ \cup {"count"},
                                      !.fileCount = CountFiles(dirFiles)]
    /\ UNCHANGED <<fileCall, dirFiles, auxVars>>

\* buildFileTree(session.workDir) runs
TreeDir ==
    /\ "tree" \notin dirResult.ran
    /\ dirResult' = [dirResult EXCEPT !.ran = @ \cup {"tree"},
                                      !.tree = BuildFileTree(dirFiles, <<>>, 0)]
    /\ UNCHANGED <<fileCall, dirFiles, auxVars>>

-----------------------------------------------------------------------------
(* Section 5: FileWatcher events *)

\* chokidar reports 'add', 'unlink' or 'ready' for the watch of session id:
\* debouncedUpdate clears the entry's timer and arms a new one
FsEvent(id) ==
    /\ id \in watchers
    /\ debounceTimers' = debounceTimers \cup {id}
    /\ fwScheduled' = [fwScheduled EXCEPT ![id] = ClearDebounce(id) + 1]
    /\ UNCHANGED <<watchers, latestCounts, counting>>

\* the debounce timer of session id fires and its callback starts countFiles
DebounceFire(id) ==
    /\ fwScheduled[id] > 0
    /\ fwScheduled' = [fwScheduled EXCEPT ![id] = @ - 1]
    /\ debounceTimers' = debounceTimers \ {id}
    /\ counting' = [counting EXCEPT ![id] = @ + 1]
    /\ UNCHANGED <<watchers, latestCounts>>

\* countFiles of session id settles: the count is stored and 'files-update'
\* emitted (ok), or the error is logged
CountDone(id, ok) ==
    /\ counting[id] > 0
    /\ counting' = [counting EXCEPT ![id] = @ - 1]
    /\ latestCounts' = IF ok THEN latestCounts \cup {id} ELSE latestCounts
    /\ UNCHANGED <<watchers, debounceTimers, fwScheduled>>

-----------------------------------------------------------------------------
(* Section 8: the file commands of the WebSocket router *)

\* the characters of the requested paths: separator, dot and two name letters
PathAlphabet == {"/", ".", "w", "x"}

\* the directory a session was created in, as the string its workDir holds
WorkDirChars(workDir) == IF workDir = "/dir" THEN <<"/", "w">> ELSE <<"/">>

\* String.prototype.startsWith
StartsWith(str, prefix) ==
    Len(prefix) <= Len(str) /\ SubSeq(str, 1, Len(prefix)) = prefix

RECURSIVE Normalize(_, _)
\* path.resolve's normalisation: walk the segments, skip '' and '.', let '..'
\* drop the last kept segment (none above the root)
Normalize(kept, segs) ==
    IF segs = <<>> THEN kept
    ELSE LET seg == Head(segs)
         IN  IF seg = <<>> \/ seg = <<".">> THEN Normalize(kept, Tail(segs))
             ELSE IF seg = <<".", ".">>
                  THEN Normalize(SubSeq(kept, 1, Len(kept) - 1), Tail(segs))
                  ELSE Normalize(Append(kept, seg), Tail(segs))

\* the absolute path string of a sequence of segments
PathString(segs) == IF segs = <<>> THEN <<"/">> ELSE <<"/">> \o Join(segs, "/")

\* path.resolve(base, p) for an absolute base: an absolute p replaces the base
Resolve(base, p) ==
    LET from == IF StartsWith(p, <<"/">>) THEN p ELSE base \o <<"/">> \o p
    IN  PathString(Normalize(<<>>, Split(from, "/")))

\* path.dirname of an absolute normalised path
Dirname(abs) ==
    LET segs == Normalize(<<>>, Split(abs, "/"))
    IN  PathString(SubSeq(segs, 1, Len(segs) - 1))

\* the reply and the filesystem calls (<<call, path>>, in order) of a file
\* command whose target absPath passed the prefix test.  ok: the
\* filesystem calls succeed (otherwise the first one throws); large: the
\* file is over 5 MB; isDir: the payload flag of file.create, or whether
\* stat finds a directory for file.delete.
FileCalls(op, absPath, workDir, isDir, ok, large) ==
    CASE op = "file.read" ->
           IF ~ok THEN [reply |-> "error", fs |-> <<<<"stat", absPath>>>>]
           ELSE IF large THEN [reply |-> "error", fs |-> <<<<"stat", absPath>>>>]
           ELSE [reply |-> "file.content",
                 fs |-> <<<<"stat", absPath>>, <<"readFile", absPath>>>>]
      [] op = "file.write" ->
           [reply |-> IF ok THEN "file.saved" ELSE "error",
            fs |-> <<<<"writeFile", absPath>>>>]
      [] op = "file.create" ->
           IF isDir
           THEN [reply |-> IF ok THEN "file.created" ELSE "error",
                 fs |-> <<<<"mkdir", absPath>>>>]
           ELSE IF ~ok
                THEN [reply |-> "error", fs |-> <<<<"mkdir", Dirname(absPath)>>>>]
                ELSE [reply |-> "file.created",
                      fs |-> <<<<"mkdir", Dirname(absPath)>>, <<"writeFile", absPath>>>>]
      [] op = "file.delete" ->
           IF absPath = workDir THEN [reply |-> "error", fs |-> <<>>]
           ELSE IF ~ok THEN [reply |-> "error", fs |-> <<<<"stat", absPath>>>>]
           ELSE [reply |-> "file.deleted",
                 fs |-> <<<<"stat", absPath>>,
                          <<IF isDir THEN "rm" ELSE "unlink", absPath>>>>]

\* a file command that arrived and is not handled yet
FileRequest(op, id, filePath) ==
    [op |-> op, id |-> id, filePath |-> filePath, reply |-> "pending", fs |-> <<>>]

\* 'file.read', 'file.write', 'file.create', 'file.delete' handling the
\* command that arrived (id 0, filePath <<>>: the field is missing)
FileCommand(isDir, ok, large) ==
    LET op == fileCall.op
        id == fileCall.id
        filePath == fileCall.filePath
    IN  /\ fileCall.reply = "pending"
        /\ fileCall' =
              IF id = 0 \/ filePath = <<>>
              THEN [fileCall EXCEPT !.reply = "error"]
              ELSE IF id \notin DOMAIN sessions
              THEN [fileCall EXCEPT !.reply = "error"]
              ELSE LET workDir == WorkDirChars(sessions[id].workDir)
                       absPath == Resolve(workDir, filePath)
                       res     == FileCalls(op, absPath, workDir, isDir, ok, large)
                   IN  IF ~StartsWith(absPath, workDir)
                       THEN [fileCall EXCEPT !.reply = "error"]
                       ELSE [fileCall EXCEPT !.reply = res.reply, !.fs = res.fs]

-----------------------------------------------------------------------------
(* Sections 8-10: the gateway handlers that create and kill sessions *)

\* the constant and user-supplied parts of the message of each error create
\* throws (server.js 348-386)
ErrorMessage(err, workDir, agentType) ==
    CASE err = "WORKDIR_REQUIRED"  -> <<"workDir is required">>
      [] err = "WORKDIR_NOT_FOUND" -> <<"workDir does not exist: ", workDir>>
      [] err = "NOT_A_DIRECTORY"   -> <<"workDir is not a directory: ", workDir>>
      [] err = "MAX_SESSIONS"      -> <<"Maximum sessions (16) reached">>
      [] err = "UNKNOWN_AGENT"     -> <<"Unknown agentType: ", agentType>>
      [] err = "SPAWN_FAILED"      -> <<"Failed to spawn terminal: ", "spawnErr">>
      [] OTHER                     -> <<err>>

\* the substrings the gateways test for that a message part contains
Markers(part) ==
    CASE part = "workDir is required"           -> {"workDir"}
      [] part = "workDir does not exist: "      -> {"workDir", "does not exist"}
      [] part = "workDir is not a directory: "  -> {"workDir"}
      [] part = "Maximum sessions (16) reached" -> {"Maximum sessions"}
      [] part = "Failed to spawn terminal: "    -> {"spawn"}
      [] part = "workDir"                       -> {"workDir"}
      [] part = "spawn"                         -> {"spawn"}
      [] part = "/missing/Maximum sessions"     -> {"Maximum sessions"}
      [] part = "/Maximum sessions.txt"         -> {"Maximum sessions"}
      [] OTHER                                  -> {}

\* err.message.includes(marker)
Includes(msg, marker) == \E k \in 1..Len(msg) : marker \in Markers(msg[k])

\* the wire code the WebSocket router's catch block sends
WireCode(msg) ==
    IF msg = <<"SESSION_NOT_FOUND">> THEN "SESSION_NOT_FOUND"
    ELSE IF msg = <<"SESSION_TERMINATED">> THEN "SESSION_TERMINATED"
    ELSE IF Includes(msg, "Maximum sessions") THEN "MAX_SESSIONS"
    ELSE IF Includes(msg, "workDir") \/ Includes(msg, "spawn") THEN "SPAWN_FAILED"
    ELSE "INVALID_MESSAGE"

\* the HTTP status POST /sessions answers a thrown error with
HttpStatus(msg) ==
    IF Includes(msg, "Maximum sessions") THEN "429"
    ELSE IF Includes(msg, "does not exist") THEN "400"
    ELSE "500"

\* what both create handlers do after sessionManager.create returned or threw:
\* on success broadcast session.update and register the directory watch
AfterCreate(out) ==
    IF out = "OK"
    THEN /\ updateEvents' = [updateEvents EXCEPT ![nextId + 1] = @ + 1]
         /\ Watch(nextId + 1)
    ELSE UNCHANGED <<updateEvents, watchers, fwVars>>

\* the agentType create() runs with: both surfaces leave an absent field to
\* the default ('claude')
AgentTypeOf(agentTypeField) ==
    IF agentTypeField = NoAgentType THEN "claude" ELSE agentTypeField

\* WebSocket 'session.create': what the handler does to the registry, the
\* observers and the watches
WsCreateEffect(workDir, agentTypeField, spawnOk) ==
    LET agentType == AgentTypeOf(agentTypeField)
        out == CreateOutcome(workDir, agentType, spawnOk)
    IN  IF workDir = ""
        THEN UNCHANGED <<sessions, procs, nextId, purgeTimers, autoRunTimers,
                         watchers, fwVars, exitEvents, updateEvents>>
        ELSE /\ Create(workDir, agentType, spawnOk)
             /\ AfterCreate(out)
             /\ UNCHANGED <<purgeTimers, exitEvents>>

\* WebSocket 'session.create': the inputs and what the requester is sent
\* (an error message with a wire code, or nothing)
WsCreateCall(workDir, agentTypeField, spawnOk) ==
    LET agentType == AgentTypeOf(agentTypeField)
        out == CreateOutcome(workDir, agentType, spawnOk)
    IN  IF workDir = ""
        THEN [op |-> "ws.create", id |-> 0, workDir |-> workDir, err |-> "-",
              reply |-> "INVALID_MESSAGE"]
        ELSE [op |-> "ws.create",
              id |-> IF out = "OK" THEN nextId + 1 ELSE 0,
              workDir |-> workDir, err |-> out,
              reply |-> IF out = "OK" THEN "-"
                        ELSE WireCode(ErrorMessage(out, workDir, agentType))]

\* WebSocket 'session.create'
WsCreate(workDir, agentTypeField, spawnOk) ==
    /\ WsCreateEffect(workDir, agentTypeField, spawnOk)
    /\ lastCall' = WsCreateCall(workDir, agentTypeField, spawnOk)

\* POST /sessions that creates the session and neither broadcasts nor watches
RestCreateEffectSilent(dir, agentTypeField, spawnOk) ==
    IF dir = ""
    THEN UNCHANGED <<sessions, procs, nextId, purgeTimers, autoRunTimers,
                     watchers, fwVars, exitEvents, updateEvents>>
    ELSE /\ Create(dir, AgentTypeOf(agentTypeField), spawnOk)
         /\ UNCHANGED <<updateEvents, watchers, fwVars, purgeTimers, exitEvents>>

\* REST POST /sessions (dir = cwd || workDir): what the handler does to the
\* registry, the observers and the watches
RestCreateEffect(dir, agentTypeField, spawnOk) ==
    LET agentType == AgentTypeOf(agentTypeField)
        out == CreateOutcome(dir, agentType, spawnOk)
    IN  IF dir = ""
        THEN UNCHANGED <<sessions, procs, nextId, purgeTimers, autoRunTimers,
                         watchers, fwVars, exitEvents, updateEvents>>
        ELSE /\ Create(dir, agentType, spawnOk)
             /\ AfterCreate(out)
             /\ UNCHANGED <<purgeTimers, exitEvents>>

\* REST POST /sessions: the inputs and the HTTP status of the response
RestCreateCall(dir, agentTypeField, spawnOk) ==
    LET agentType == AgentTypeOf(agentTypeField)
        out == CreateOutcome(dir, agentType, spawnOk)
    IN  IF dir = ""
        THEN [op |-> "rest.create", id |-> 0, workDir |-> dir, err |-> "-",
              reply |-> "400"]
        ELSE [op |-> "rest.create",
              id |-> IF out = "OK" THEN nextId + 1 ELSE 0,
              workDir |-> dir, err |-> out,
              reply |-> IF out = "OK" THEN "201"
                        ELSE HttpStatus(ErrorMessage(out, dir, agentType))]

\* REST POST /sessions
RestCreate(dir, agentTypeField, spawnOk) ==
    /\ RestCreateEffect(dir, agentTypeField, spawnOk)
    /\ lastCall' = RestCreateCall(dir, agentTypeField, spawnOk)

\* WebSocket 'session.kill' (sessionId 0: the field is missing)
WsKill(id) ==
    IF id = 0
    THEN /\ lastCall' = [NoCall EXCEPT !.op = "ws.kill", !.reply = "INVALID_MESSAGE"]
         /\ UNCHANGED <<sessions, procs, nextId, purgeTimers, autoRunTimers,
                        watchers, fwVars, exitEvents, updateEvents>>
    ELSE /\ Kill(id)
         /\ Unwatch(id)
         /\ lastCall' = [NoCall EXCEPT !.op = "ws.kill", !.id = id, !.err = "OK"]
         /\ UNCHANGED <<nextId, purgeTimers, autoRunTimers, exitEvents, updateEvents>>

\* REST GET /sessions/:id
RestGet(id) ==
    /\ lastCall' = [NoCall EXCEPT !.op = "rest.get", !.id = id,
                                  !.reply = IF id \in DOMAIN sessions THEN "200"
                                            ELSE "404"]
    /\ UNCHANGED <<sessions, procs, nextId, purgeTimers, autoRunTimers,
                   watchers, fwVars, exitEvents, updateEvents>>

\* REST DELETE /sessions/:id
RestDelete(id) ==
    IF id \notin DOMAIN sessions
    THEN /\ lastCall' = [NoCall EXCEPT !.op = "rest.delete", !.id = id, !.reply = "404"]
         /\ UNCHANGED <<sessions, procs, nextId, purgeTimers, autoRunTimers,
                        watchers, fwVars, exitEvents, updateEvents>>
    ELSE /\ Kill(id)
         /\ Unwatch(id)
         /\ lastCall' = [NoCall EXCEPT !.op = "rest.delete", !.id = id, !.err = "OK",
                                       !.reply = "200"]
         /\ UNCHANGED <<nextId, purgeTimers, autoRunTimers, exitEvents, updateEvents>>

\* shutdown(signal): killAll() and unwatchAll()
Shutdown ==
    /\ KillAll
    /\ UnwatchAll
    /\ lastCall' = [NoCall EXCEPT !.op = "shutdown"]
    /\ UNCHANGED <<nextId, purgeTimers, autoRunTimers, exitEvents, updateEvents>>

-----------------------------------------------------------------------------
(* Initial states: each component after construction *)

RingInit(capacity) == RingNew(capacity) /\ rbWritten = <<>>

RawInit(maxBytes) == RawNew(maxBytes) /\ rawWritten = <<>>

LineBufferInit(pending) ==
    /\ LineBufferNew
    /\ lbFed = [st \in Streams |-> <<>>]
    /\ lbQuiet = TRUE
    /\ lbInput = pending

\* new SessionManager(), new FileWatcher(); no request handled yet
SessionsInit ==
    /\ sessions = <<>>
    /\ procs = <<>>
    /\ nextId = 0
    /\ purgeTimers = {}
    /\ autoRunTimers = {}
    /\ watchers = {}
    /\ exitEvents = [id \in Ids |-> 0]
    /\ updateEvents = [id \in Ids |-> 0]
    /\ lastCall = NoCall

\* createWSS(): no connection yet, nothing sent; no session has output or was
\* resized
GwInit ==
    /\ clients = [c \in Conns |-> "closed"]
    /\ alive = [c \in Conns |-> FALSE]
    /\ pinged = [c \in Conns |-> FALSE]
    /\ sent = <<>>
    /\ resized = [id \in Ids |-> <<>>]
    /\ rawData = [id \in Ids |-> <<>>]
    /\ pendingLine = {}

\* no connection has received anything yet
\* no command threw yet
NoThrown == [err |-> "none", workDir |-> "", agentType |-> "", message |-> <<>>,
             code |-> "-"]

\* new WebSocketService() (websocket.js 7-14): ws is the number of the current
\* socket (0: null), sockets the readyState of every socket made so far,
\* reconnectTimer the handle of the stored timer (0: null), pending the
\* timers of the event loop, each with its delay
WebSocketServiceNew ==
    [ws |-> 0, connected |-> FALSE, reconnectTimer |-> 0, reconnectDelay |-> 1000,
     sockets |-> <<>>, pending |-> {}, timersMade |-> 0,
     stopped |-> FALSE, lastDelay |-> 0, lastOp |-> "new"]

\* new BarScene() (BarScene constructor, part_005 29-36) and the two fields
\* setupWebSocketListeners starts with (1229-1230); patrons maps a session
\* to the id of its seat, replaySessionIds is null or a Set
NullIds == [isNull |-> TRUE, ids |-> {}]
BarSceneNew ==
    [patrons |-> <<>>, occupiedSeats |-> {}, replaySessionIds |-> NullIds,
     replayTimer |-> FALSE, lastOp |-> "new", lastId |-> 0, removed |-> {}]

AuxInit ==
    /\ thrown = NoThrown
    /\ wsService = WebSocketServiceNew
    /\ bar = BarSceneNew
    /\ server = [wss |-> "open", http |-> "listening", signals |-> 0, forceExit |-> 0,
                 exited |-> "no"]
    /\ issuer = 0
    /\ erred = {}
    /\ fwTrace = [id \in Ids |-> [bursts |-> 0, events |-> 0, lastBurst |-> 0,
                                  recounts |-> 0, updates |-> <<>>]]
    /\ received = [c \in Conns |-> [id \in Ids |-> <<>>]]

\* no file command handled yet
FileInit ==
    /\ fileCall = NoFileCall
    /\ dirFiles = {}
    /\ AuxInit
    /\ dirResult = NoDirResult
    /\ inbound = NoInbound

\* new FileWatcher()
FwInit ==
    /\ debounceTimers = {}
    /\ fwScheduled = [id \in Ids |-> 0]
    /\ latestCounts = {}
    /\ counting = [id \in Ids |-> 0]

-----------------------------------------------------------------------------
(* SpecRing: one RingBuffer of any capacity 1..MaxCap, written to *)

RingStep(item) ==
    /\ Len(rbWritten) < MaxWrites
    /\ RingWrite(item)
    /\ rbWritten' = Append(rbWritten, item)
    /\ UNCHANGED <<rawVars, lbVars, smVars, fwVars, gwVars, fileVars>>

InitRing ==
    /\ \E capacity \in 1..MaxCap : RingInit(capacity)
    /\ RawInit(1) /\ LineBufferInit(<<>>) /\ SessionsInit /\ FwInit /\ GwInit /\ FileInit

NextRing == \E item \in Items : RingStep(item)

SpecRing == InitRing /\ [][NextRing]_vars

-----------------------------------------------------------------------------
(* SpecRaw: one RawReplayBuffer of any cap 1..MaxRawCap, written to *)

RawChunks == SeqsUpTo(RawAlphabet, MaxChunkLen)

RawStep(data) ==
    /\ Len(rawWritten) < MaxRawWrites
    /\ RawWrite(data)
    /\ rawWritten' = Append(rawWritten, data)
    /\ UNCHANGED <<ringVars, lbVars, smVars, fwVars, gwVars, fileVars>>

InitRaw ==
    /\ \E maxBytes \in 1..MaxRawCap : RawInit(maxBytes)
    /\ RingInit(1) /\ LineBufferInit(<<>>) /\ SessionsInit /\ FwInit /\ GwInit /\ FileInit

NextRaw == \E data \in RawChunks : RawStep(data)

SpecRaw == InitRaw /\ [][NextRaw]_vars

-----------------------------------------------------------------------------
(* SpecLB: one LineBuffer fed chunk by chunk, with its timer, flush, destroy *)

FeedChunks == SeqsUpTo(FeedAlphabet, MaxFeedChunk)

LbFeed(stream, rawChunk) ==
    /\ Len(lbFed[stream]) + Len(rawChunk) <= MaxFedLen
    /\ Feed(stream, rawChunk)
    /\ lbFed' = [lbFed EXCEPT ![stream] = @ \o rawChunk]
    /\ UNCHANGED <<lbQuiet, lbInput, ringVars, rawVars, smVars, fwVars, gwVars, fileVars>>

LbTimerFire(stream) ==
    /\ FlushTimerFire(stream)
    /\ lbQuiet' = FALSE
    /\ UNCHANGED <<lbFed, lbInput, ringVars, rawVars, smVars, fwVars, gwVars, fileVars>>

LbFlush(stream) ==
    /\ Flush(stream)
    /\ lbQuiet' = FALSE
    /\ UNCHANGED <<lbFed, lbInput, ringVars, rawVars, smVars, fwVars, gwVars, fileVars>>

LbDestroy ==
    /\ Destroy
    /\ lbQuiet' = FALSE
    /\ UNCHANGED <<lbFed, lbInput, ringVars, rawVars, smVars, fwVars, gwVars, fileVars>>

InitLB ==
    /\ LineBufferInit(<<>>)
    /\ RingInit(1) /\ RawInit(1) /\ SessionsInit /\ FwInit /\ GwInit /\ FileInit

NextLB ==
    \/ \E stream \in Streams, rawChunk \in FeedChunks : LbFeed(stream, rawChunk)
    \/ \E stream \in Streams : LbTimerFire(stream)
    \/ \E stream \in Streams : LbFlush(stream)
    \/ LbDestroy

SpecLB == InitLB /\ [][NextLB]_vars

\* ENABLED <<LbTimerFire(stream)>>_vars: the callback's only guard is that it is
\* scheduled, and running it takes it off the schedule
TimerEnabled(stream) == lbScheduled[stream] > 0

\* SpecLB with the scheduling the runtime gives: a scheduled flush callback
\* that is not cleared runs (setTimeout, CONFIG.lineBufferFlushMs).  This is
\* WF_vars(LbTimerFire(stream)) with its ENABLED written out as TimerEnabled.
FairLB ==
    /\ SpecLB
    /\ \A stream \in Streams :
           \/ []<>(~TimerEnabled(stream))
           \/ []<><<LbTimerFire(stream)>>_vars

-----------------------------------------------------------------------------
(* SpecSeg: a fresh LineBuffer fed one newline-terminated segment *)

Segments == SeqsUpTo(Alphabet \ {LF}, MaxSegLen)

FeedSegment ==
    /\ lbInput # <<>>
    /\ Feed("stdout", lbInput[1] \o <<LF>>)
    /\ lbFed' = [lbFed EXCEPT !["stdout"] = @ \o lbInput[1] \o <<LF>>]
    /\ lbInput' = <<>>
    /\ UNCHANGED <<lbQuiet, ringVars, rawVars, smVars, fwVars, gwVars, fileVars>>

InitSeg ==
    /\ \E seg \in Segments : LineBufferInit(<<seg>>)
    /\ RingInit(1) /\ RawInit(1) /\ SessionsInit /\ FwInit /\ GwInit /\ FileInit

NextSeg == FeedSegment

SpecSeg == InitSeg /\ [][NextSeg]_vars

-----------------------------------------------------------------------------
(* Section 7: the WebSocket gateway: connections, heartbeat, broadcast *)

\* the connections of wss.clients whose readyState is OPEN
OpenConns == {c \in Conns : clients[c] = "open"}

\* a broadcast that reaches one open connection only
BroadcastToOne(type, id) ==
    [type |-> type, id |-> id, dims |-> <<>>,
     to |-> {c \in OpenConns : \A d \in OpenConns : c <= d}]

\* broadcast(type, payload): the message goes to every open connection
Broadcast(type, id) ==
    [type |-> type, id |-> id, dims |-> <<>>, to |-> OpenConns]

\* sendToClient(ws, type, payload): nothing when ws is not open
SendToClient(c, type, id, dims) ==
    IF clients[c] = "open"
    THEN <<[type |-> type, id |-> id, dims |-> dims, to |-> {c}]>>
    ELSE <<>>

\* sessionManager.list() as ids, in the registry's insertion order
ListIds == SelectSeq([i \in 1..MaxIds |-> i], LAMBDA i : i \in NonTerminated)

RECURSIVE SendEach(_, _)
\* a loop over ids that sends msgOf[id] (a sequence, empty to skip) for each
SendEach(ids, msgOf) ==
    IF ids = <<>> THEN <<>> ELSE msgOf[Head(ids)] \o SendEach(Tail(ids), msgOf)

\* the replay that also covers the terminated sessions of the registry
ReplayAll(c) ==
    LET all == SelectSeq([i \in 1..MaxIds |-> i], LAMBDA i : i \in DOMAIN sessions)
        one(type, id, dims) == <<[type |-> type, id |-> id, dims |-> dims, to |-> {c}]>>
    IN  SendEach(all, [id \in Ids |-> one("session.update", id, <<>>)])
        \o SendEach(all, [id \in Ids |->
               IF rawData[id] # <<>>
               THEN one("terminal.replay", id, <<sessions[id].cols, sessions[id].rows>>)
               ELSE <<>>])
        \o SendEach(all, [id \in Ids |->
               IF id \in latestCounts THEN one("files.update", id, <<>>) ELSE <<>>])

\* what the connection handler sends the new connection c: the active
\* sessions, then the raw output of each with its cached dimensions, then
\* the latest file count of each
Replay(c) ==
    LET one(type, id, dims) == <<[type |-> type, id |-> id, dims |-> dims, to |-> {c}]>>
        dimsOf(id) == <<IF sessions[id].cols # 0 THEN sessions[id].cols ELSE ptyDefaultCols,
                        IF sessions[id].rows # 0 THEN sessions[id].rows ELSE ptyDefaultRows>>
    IN  SendEach(ListIds, [id \in Ids |-> one("session.update", id, <<>>)])
        \o SendEach(ListIds, [id \in Ids |->
               IF rawData[id] # <<>> THEN one("terminal.replay", id, dimsOf(id))
               ELSE <<>>])
        \o SendEach(ListIds, [id \in Ids |->
               IF id \in latestCounts THEN one("files.update", id, <<>>) ELSE <<>>])

\* wss 'connection' for connection c
Connect(c) ==
    /\ clients[c] = "closed"
    /\ clients' = [clients EXCEPT ![c] = "open"]
    /\ alive' = [alive EXCEPT ![c] = TRUE]
    /\ pinged' = [pinged EXCEPT ![c] = FALSE]
    /\ sent' = Replay(c)
    /\ UNCHANGED <<resized, rawData, pendingLine>>

\* the peer of connection c closes it
Close(c) ==
    /\ clients[c] = "open"
    /\ clients' = [clients EXCEPT ![c] = "closed"]
    /\ alive' = [alive EXCEPT ![c] = FALSE]
    /\ pinged' = [pinged EXCEPT ![c] = FALSE]
    /\ sent' = <<>>
    /\ UNCHANGED <<resized, rawData, pendingLine>>

\* the heartbeat interval fires: terminate every connection whose _alive is
\* false, mark the others not alive and ping them
HeartbeatTick ==
    /\ clients' = [c \in Conns |->
                     IF clients[c] = "open" /\ ~alive[c] THEN "closed" ELSE clients[c]]
    /\ alive' = [c \in Conns |-> FALSE]
    /\ pinged' = [c \in Conns |->
                    IF clients[c] = "open" /\ alive[c] THEN TRUE ELSE pinged[c]]
    /\ sent' = <<>>
    /\ UNCHANGED <<resized, rawData, pendingLine>>

\* a pong handler that leaves _alive as it is
PongIgnored(c) ==
    /\ clients[c] = "open"
    /\ pinged[c]
    /\ pinged' = [pinged EXCEPT ![c] = FALSE]
    /\ sent' = <<>>
    /\ UNCHANGED <<clients, alive, resized, rawData, pendingLine>>

\* connection c answers the ping: ws.on('pong') sets _alive
Pong(c) ==
    /\ clients[c] = "open"
    /\ pinged[c]
    /\ alive' = [alive EXCEPT ![c] = TRUE]
    /\ pinged' = [pinged EXCEPT ![c] = FALSE]
    /\ sent' = <<>>
    /\ UNCHANGED <<clients, resized, rawData, pendingLine>>

\* resize that stores the dimensions before session.proc.resize, which may throw
ResizeStoresFirst(id, cols, rows, ok) ==
    IF id \in DOMAIN sessions /\ sessions[id].state # "terminated"
    THEN /\ sessions' = [sessions EXCEPT ![id].cols = cols, ![id].rows = rows]
         /\ resized' = [resized EXCEPT ![id] = <<cols, rows>>]
    ELSE UNCHANGED <<sessions, resized>>

\* SessionManager.resize(id, cols, rows): getSession throws for an unknown or
\* terminated id, proc.resize may throw (~ok), then the dimensions are cached
Resize(id, cols, rows, ok) ==
    IF id \in DOMAIN sessions /\ sessions[id].state # "terminated" /\ ok
    THEN /\ sessions' = [sessions EXCEPT ![id].cols = cols, ![id].rows = rows]
         /\ resized' = [resized EXCEPT ![id] = <<cols, rows>>]
    ELSE UNCHANGED <<sessions, resized>>

\* the error code 'terminal.resize' answers with ("-": none)
ResizeReply(id, cols, rows, ok) ==
    IF id = 0 \/ cols = 0 \/ rows = 0 THEN "INVALID_MESSAGE"
    ELSE IF id \notin DOMAIN sessions THEN "SESSION_NOT_FOUND"
    ELSE IF sessions[id].state = "terminated" THEN "SESSION_TERMINATED"
    ELSE IF ~ok THEN "INVALID_MESSAGE"
    ELSE "-"

\* WebSocket 'terminal.resize' from connection c (0: the field is missing)
WsResize(c, id, cols, rows, ok) ==
    LET reply == ResizeReply(id, cols, rows, ok)
    IN  /\ clients[c] = "open"
        /\ IF id = 0 \/ cols = 0 \/ rows = 0
           THEN UNCHANGED <<sessions, resized>>
           ELSE Resize(id, cols, rows, ok)
        /\ sent' = IF reply = "-" THEN <<>> ELSE SendToClient(c, "error", 0, <<>>)
        /\ lastCall' = [NoCall EXCEPT !.op = "ws.resize", !.id = id, !.reply = reply]
        /\ UNCHANGED <<procs, nextId, purgeTimers, autoRunTimers, watchers, fwVars,
                       exitEvents, updateEvents, clients, alive, pinged, rawData,
                       pendingLine>>

\* proc.onData of session id: the line buffer is fed (a chunk that ends a
\* line emits 'session-output', another one is kept and arms the flush
\* timer), the raw buffer written, 'terminal-output' emitted
PtyData(id, endsLine) ==
    /\ id \in DOMAIN procs
    /\ procs[id].alive
    /\ Len(rawData[id]) < MaxOutputs
    /\ pendingLine' = IF endsLine THEN pendingLine \ {id} ELSE pendingLine \cup {id}
    /\ rawData' = [rawData EXCEPT ![id] = Append(@, IF endsLine THEN LF ELSE "x")]
    /\ sent' = (IF endsLine THEN <<Broadcast("session.output", id)>> ELSE <<>>)
                \o <<Broadcast("terminal.output", id)>>
    /\ lastCall' = [NoCall EXCEPT !.op = "pty.data", !.id = id]
    /\ UNCHANGED <<sessions, procs, nextId, purgeTimers, autoRunTimers, watchers,
                   fwVars, exitEvents, updateEvents, clients, alive, pinged, resized>>

\* the flush timer of session id's line buffer fires: the partial line is
\* emitted as 'session-output'
LineFlushFire(id) ==
    /\ id \in pendingLine
    /\ pendingLine' = pendingLine \ {id}
    /\ sent' = <<Broadcast("session.output", id)>>
    /\ lastCall' = [NoCall EXCEPT !.op = "timer.lineFlush", !.id = id]
    /\ UNCHANGED <<sessions, procs, nextId, purgeTimers, autoRunTimers, watchers,
                   fwVars, exitEvents, updateEvents, clients, alive, pinged, resized,
                   rawData>>

\* the exit handler emitting 'session-exit' before it flushes the line buffer
GwProcExitFlushLast(id, exitCode) ==
    /\ ProcExit(id, exitCode)
    /\ pendingLine' = pendingLine \ {id}
    /\ sent' = <<Broadcast("session.terminated", id)>>
                \o (IF id \in pendingLine THEN <<Broadcast("session.output", id)>>
                    ELSE <<>>)
    /\ UNCHANGED <<clients, alive, pinged, resized, rawData>>

\* the exit of session id's process as the gateway sees it: the flushed
\* partial line, then 'session-exit' broadcast as session.terminated
GwProcExit(id, exitCode) ==
    /\ ProcExit(id, exitCode)
    /\ pendingLine' = pendingLine \ {id}
    /\ sent' = (IF id \in pendingLine THEN <<Broadcast("session.output", id)>>
                ELSE <<>>)
                \o <<Broadcast("session.terminated", id)>>
    /\ UNCHANGED <<clients, alive, pinged, resized, rawData>>

\* the registry removal of session id: its buffers go with the session object
GwPurge(id) ==
    /\ PurgeFire(id)
    /\ rawData' = [rawData EXCEPT ![id] = <<>>]
    /\ resized' = [resized EXCEPT ![id] = <<>>]
    /\ sent' = <<>>
    /\ UNCHANGED <<clients, alive, pinged, pendingLine>>

\* 'session.create' sent by connection c: the broadcast, or the error reply
GwWsCreate(c, workDir, agentTypeField, spawnOk) ==
    /\ clients[c] = "open"
    /\ WsCreate(workDir, agentTypeField, spawnOk)
    /\ sent' = IF WsCreateCall(workDir, agentTypeField, spawnOk).reply = "-"
               THEN <<Broadcast("session.update", nextId + 1)>>
               ELSE SendToClient(c, "error", 0, <<>>)
    /\ UNCHANGED <<clients, alive, pinged, resized, rawData, pendingLine>>

\* POST /sessions: the broadcast through the gateway's broadcast function
GwRestCreate(dir, agentTypeField, spawnOk) ==
    /\ RestCreate(dir, agentTypeField, spawnOk)
    /\ sent' = IF RestCreateCall(dir, agentTypeField, spawnOk).reply = "201"
               THEN <<Broadcast("session.update", nextId + 1)>>
               ELSE <<>>
    /\ UNCHANGED <<clients, alive, pinged, resized, rawData, pendingLine>>

\* 'session.kill' sent by connection c
GwWsKill(c, id) ==
    /\ clients[c] = "open"
    /\ WsKill(id)
    /\ sent' = IF id = 0 THEN SendToClient(c, "error", 0, <<>>) ELSE <<>>
    /\ UNCHANGED <<clients, alive, pinged, resized, rawData, pendingLine>>

\* the FileWatcher steps as the gateway sees them: 'files-update' is
\* broadcast as files.update
GwFsEvent(id) ==
    /\ FsEvent(id)
    /\ sent' = <<>>
    /\ lastCall' = [NoCall EXCEPT !.op = "fw.event"]
    /\ UNCHANGED <<sessions, procs, nextId, purgeTimers, autoRunTimers, exitEvents,
                   updateEvents, clients, alive, pinged, resized, rawData, pendingLine>>

\* (one recount at a time per session in SpecGw)
GwDebounceFire(id) ==
    /\ counting[id] = 0
    /\ DebounceFire(id)
    /\ sent' = <<>>
    /\ lastCall' = [NoCall EXCEPT !.op = "timer.debounce"]
    /\ UNCHANGED <<sessions, procs, nextId, purgeTimers, autoRunTimers, exitEvents,
                   updateEvents, clients, alive, pinged, resized, rawData, pendingLine>>

GwCountDone(id, ok) ==
    /\ CountDone(id, ok)
    /\ sent' = IF ok THEN <<Broadcast("files.update", id)>> ELSE <<>>
    /\ lastCall' = [NoCall EXCEPT !.op = "fw.counted", !.id = id,
                                  !.err = IF ok THEN "OK" ELSE "error"]
    /\ UNCHANGED <<sessions, procs, nextId, purgeTimers, autoRunTimers, exitEvents,
                   updateEvents, clients, alive, pinged, resized, rawData, pendingLine>>

\* the connection steps with the rest of the state
GwConnect(c) ==
    /\ Connect(c)
    /\ lastCall' = [NoCall EXCEPT !.op = "ws.connect", !.id = c]
    /\ UNCHANGED <<sessions, procs, nextId, purgeTimers, autoRunTimers, watchers,
                   fwVars, exitEvents, updateEvents>>

GwClose(c) ==
    /\ Close(c)
    /\ lastCall' = [NoCall EXCEPT !.op = "ws.close", !.id = c]
    /\ UNCHANGED <<sessions, procs, nextId, purgeTimers, autoRunTimers, watchers,
                   fwVars, exitEvents, updateEvents>>

GwHeartbeat ==
    /\ HeartbeatTick
    /\ lastCall' = [NoCall EXCEPT !.op = "timer.heartbeat"]
    /\ UNCHANGED <<sessions, procs, nextId, purgeTimers, autoRunTimers, watchers,
                   fwVars, exitEvents, updateEvents>>

GwPong(c) ==
    /\ Pong(c)
    /\ lastCall' = [NoCall EXCEPT !.op = "ws.pong", !.id = c]
    /\ UNCHANGED <<sessions, procs, nextId, purgeTimers, autoRunTimers, watchers,
                   fwVars, exitEvents, updateEvents>>

\* the connections that take part in SpecGw
GwConns == 1..MaxGwConns

\* the inputs of SpecGw: a directory and a missing path; columns and rows
GwWorkDirs == {"/dir", "/missing"}
ResizeCols == {0, 80}
ResizeRows == {24}

InitGw ==
    /\ SessionsInit /\ FwInit /\ GwInit /\ FileInit
    /\ RingInit(1) /\ RawInit(1) /\ LineBufferInit(<<>>)

NextGw ==
    \/ \E c \in GwConns : GwConnect(c) /\ UNCHANGED <<ringVars, rawVars, lbVars, fileVars>>
    \/ \E c \in GwConns : GwClose(c) /\ UNCHANGED <<ringVars, rawVars, lbVars, fileVars>>
    \/ \E c \in GwConns, workDir \in GwWorkDirs :
            /\ GwWsCreate(c, workDir, NoAgentType, TRUE)
            /\ UNCHANGED <<ringVars, rawVars, lbVars, fileVars>>
    \/ \E dir \in GwWorkDirs :
            /\ GwRestCreate(dir, NoAgentType, TRUE)
            /\ UNCHANGED <<ringVars, rawVars, lbVars, fileVars>>
    \/ \E c \in GwConns, id \in Ids :
            GwWsKill(c, id) /\ UNCHANGED <<ringVars, rawVars, lbVars, fileVars>>
    \/ \E c \in GwConns, id \in Ids, cols \in ResizeCols, rows \in ResizeRows,
          ok \in BOOLEAN :
            /\ WsResize(c, id, cols, rows, ok)
            /\ UNCHANGED <<ringVars, rawVars, lbVars, fileVars>>
    \/ \E id \in Ids, endsLine \in BOOLEAN :
            PtyData(id, endsLine) /\ UNCHANGED <<ringVars, rawVars, lbVars, fileVars>>
    \/ \E id \in Ids :
            LineFlushFire(id) /\ UNCHANGED <<ringVars, rawVars, lbVars, fileVars>>
    \/ \E id \in Ids, exitCode \in ExitCodes :
            GwProcExit(id, exitCode) /\ UNCHANGED <<ringVars, rawVars, lbVars, fileVars>>
    \/ \E id \in Ids : GwPurge(id) /\ UNCHANGED <<ringVars, rawVars, lbVars, fileVars>>
    \/ \E id \in Ids : GwFsEvent(id) /\ UNCHANGED <<ringVars, rawVars, lbVars, fileVars>>
    \/ \E id \in Ids :
            GwDebounceFire(id) /\ UNCHANGED <<ringVars, rawVars, lbVars, fileVars>>
    \/ \E id \in Ids, ok \in BOOLEAN :
            GwCountDone(id, ok) /\ UNCHANGED <<ringVars, rawVars, lbVars, fileVars>>

SpecGw == InitGw /\ [][NextGw]_vars

-----------------------------------------------------------------------------
(* SpecHb: the connections and the heartbeat *)

NextHb ==
    \/ \E c \in Conns : GwConnect(c) /\ UNCHANGED <<ringVars, rawVars, lbVars, fileVars>>
    \/ \E c \in Conns : GwClose(c) /\ UNCHANGED <<ringVars, rawVars, lbVars, fileVars>>
    \/ GwHeartbeat /\ UNCHANGED <<ringVars, rawVars, lbVars, fileVars>>
    \/ \E c \in Conns : GwPong(c) /\ UNCHANGED <<ringVars, rawVars, lbVars, fileVars>>

SpecHb == InitGw /\ [][NextHb]_vars

-----------------------------------------------------------------------------
(* SpecPty: the sessions' ptys -- input written, output read, and the timers *)

\* the most writes one pty receives in a run
MaxPtyWrites == 2

\* the steps below that send no message leave `sent` empty

\* prompts and raw input: one that ends in a newline already, and the empty
\* string for writeRaw
Prompts == {<<"p">>, <<"p", LF>>}
RawInputs == {<<>>, <<"d">>}

PtyHasRoom(id) == id \in DOMAIN procs => Len(procs[id].written) < MaxPtyWrites

PtyCreate(dir) ==
    /\ GwRestCreate(dir, NoAgentType, TRUE)
    /\ UNCHANGED <<ringVars, rawVars, lbVars, fileVars>>

PtyKill(id) ==
    /\ RestDelete(id)
    /\ sent' = <<>>
    /\ UNCHANGED <<clients, alive, pinged, resized, rawData, pendingLine>>
    /\ UNCHANGED <<ringVars, rawVars, lbVars, fileVars>>

PtySendPrompt(id, prompt) ==
    /\ PtyHasRoom(id)
    /\ SendPrompt(id, prompt)
    /\ sent' = <<>>
    /\ UNCHANGED <<clients, alive, pinged, resized, rawData, pendingLine>>
    /\ UNCHANGED <<ringVars, rawVars, lbVars, fileVars>>

PtyWriteRaw(id, data) ==
    /\ PtyHasRoom(id)
    /\ WriteRaw(id, data)
    /\ sent' = <<>>
    /\ UNCHANGED <<clients, alive, pinged, resized, rawData, pendingLine>>
    /\ UNCHANGED <<ringVars, rawVars, lbVars, fileVars>>

PtyOutput(id, endsLine) ==
    PtyData(id, endsLine) /\ UNCHANGED <<ringVars, rawVars, lbVars, fileVars>>

PtyLineFlush(id) ==
    LineFlushFire(id) /\ UNCHANGED <<ringVars, rawVars, lbVars, fileVars>>

PtyExit(id, exitCode) ==
    GwProcExit(id, exitCode) /\ UNCHANGED <<ringVars, rawVars, lbVars, fileVars>>

PtyPurge(id) ==
    GwPurge(id) /\ UNCHANGED <<ringVars, rawVars, lbVars, fileVars>>

PtyForceKill(id) ==
    /\ ForceKillFire(id)
    /\ sent' = <<>>
    /\ UNCHANGED <<clients, alive, pinged, resized, rawData, pendingLine>>
    /\ UNCHANGED <<ringVars, rawVars, lbVars, fileVars>>

PtyAutoRun(id) ==
    /\ PtyHasRoom(id)
    /\ AutoRunFire(id)
    /\ sent' = <<>>
    /\ UNCHANGED <<clients, alive, pinged, resized, rawData, pendingLine>>
    /\ UNCHANGED <<ringVars, rawVars, lbVars, fileVars>>

NextPty ==
    \/ \E dir \in GwWorkDirs : PtyCreate(dir)
    \/ \E id \in Ids : PtyKill(id)
    \/ \E id \in Ids, prompt \in Prompts : PtySendPrompt(id, prompt)
    \/ \E id \in Ids, data \in RawInputs : PtyWriteRaw(id, data)
    \/ \E id \in Ids, endsLine \in BOOLEAN : PtyOutput(id, endsLine)
    \/ \E id \in Ids : PtyLineFlush(id)
    \/ \E id \in Ids, exitCode \in ExitCodes : PtyExit(id, exitCode)
    \/ \E id \in Ids : PtyPurge(id)
    \/ \E id \in Ids : PtyForceKill(id)
    \/ \E id \in Ids : PtyAutoRun(id)

SpecPty == InitGw /\ [][NextPty]_vars

-----------------------------------------------------------------------------
(* SpecOrder: the output of one session's pty, chunk by chunk, and the      *)
(* connections that are sent it                                            *)

\* the most chunks the pty emits in a run
MaxOrdWrites == 3

\* the chunks node-pty hands to onData: an ASCII one, a two-byte one, and
\* one that ends a line
OrdChunks == {<<"a">>, <<TwoByteChar>>, <<"a", LF>>}

\* the connection handler's terminal.replay carrying only the oldest chunk
\* the buffer still holds
ReplayDataOldestChunk(id) ==
    IF id \in NonTerminated /\ rawData[id] # <<>> THEN rawChunks[1] ELSE <<>>

\* the data of the terminal.replay the connection handler sends for session
\* id: getRawReplay(id) for a listed session, nothing when it is empty
ReplayData(id) ==
    IF id \in NonTerminated /\ rawData[id] # <<>> THEN rawData[id] ELSE <<>>

\* broadcast('terminal.output', {sessionId: id, data}) as the open
\* connections receive it
DeliverOutput(id, data) ==
    [c \in Conns |-> IF clients[c] = "open"
                     THEN [received[c] EXCEPT ![id] = @ \o data]
                     ELSE received[c]]

\* proc.onData(data) of session id: the line buffer fed, the raw buffer
\* written, 'terminal-output' emitted and broadcast
OnData(id, data) ==
    /\ id \in DOMAIN procs
    /\ procs[id].alive
    /\ Feed("stdout", data)
    /\ RawWrite(data)
    /\ rawData' = [rawData EXCEPT ![id] = Concat(rawChunks')]
    /\ pendingLine' = IF "stdout" \in timers' THEN pendingLine \cup {id}
                      ELSE pendingLine \ {id}
    /\ sent' = [k \in 1..(Len(lbLines') - Len(lbLines)) |-> Broadcast("session.output", id)]
                \o <<Broadcast("terminal.output", id)>>
    /\ received' = DeliverOutput(id, data)
    /\ lastCall' = [NoCall EXCEPT !.op = "pty.data", !.id = id]

\* the connection handler for connection c, with what its terminal.replay
\* messages carry
ConnectReplay(c) ==
    /\ Connect(c)
    /\ received' = [received EXCEPT ![c] = [id \in Ids |-> ReplayData(id)]]
    /\ lastCall' = [NoCall EXCEPT !.op = "ws.connect", !.id = c]

OrdCreate(dir) == nextId = 0 /\ PtyCreate(dir)

OrdData(id, data) ==
    /\ Len(rawWritten) < MaxOrdWrites
    /\ OnData(id, data)
    /\ rawWritten' = Append(rawWritten, data)
    /\ UNCHANGED <<ringVars, lbFed, lbQuiet, lbInput, sessions, nextId, procs,
                   purgeTimers, autoRunTimers, watchers, exitEvents, updateEvents,
                   fwVars, clients, alive, pinged, resized, fileCall, dirFiles,
                   dirResult, inbound, fwTrace, server, issuer, erred, edgeVars>>

OrdConnect(c) ==
    /\ ConnectReplay(c)
    /\ UNCHANGED <<ringVars, rawVars, lbVars, sessions, nextId, procs, purgeTimers,
                   autoRunTimers, watchers, exitEvents, updateEvents, fwVars,
                   fileCall, dirFiles, dirResult, inbound, fwTrace, server, issuer, erred, edgeVars>>

\* the peer closes connection c: it is sent nothing from here on
OrdClose(c) ==
    /\ GwClose(c)
    /\ received' = [received EXCEPT ![c] = [id \in Ids |-> <<>>]]
    /\ UNCHANGED <<ringVars, rawVars, lbVars, fileCall, dirFiles, dirResult, inbound,
                   fwTrace, server, issuer, erred, edgeVars>>

\* proc.onExit of session id: lineBuffer.flush('stdout'), lineBuffer.destroy(),
\* then the exit handler as the gateway sees it
OrdExit(id, exitCode) ==
    /\ GwProcExit(id, exitCode)
    /\ lbLines' = IF Len(rawPartials["stdout"]) > 0
                  THEN Emit(lbLines, "stdout", CleanLine(rawPartials["stdout"]))
                  ELSE lbLines
    /\ rawPartials' = [st \in Streams |-> <<>>]
    /\ timers' = {}
    /\ lbScheduled' = [st \in Streams |-> ClearTimer(st)]
    /\ UNCHANGED <<ringVars, rawVars, lbFed, lbQuiet, lbInput, fileVars>>

\* the flush timer of the session's line buffer fires
OrdLineFlush(id) ==
    /\ id \in pendingLine
    /\ FlushTimerFire("stdout")
    /\ LineFlushFire(id)
    /\ UNCHANGED <<ringVars, rawVars, lbFed, lbQuiet, lbInput, fileVars>>

InitOrder ==
    /\ SessionsInit /\ FwInit /\ GwInit /\ FileInit
    /\ RingInit(1) /\ LineBufferInit(<<>>)
    /\ \E maxBytes \in 1..MaxRawCap : RawInit(maxBytes)

NextOrder ==
    \/ \E dir \in GwWorkDirs : OrdCreate(dir)
    \/ \E id \in Ids, data \in OrdChunks : OrdData(id, data)
    \/ \E c \in GwConns : OrdConnect(c)
    \/ \E c \in GwConns : OrdClose(c)
    \/ \E id \in Ids : PtyKill(id)
    \/ \E id \in Ids, exitCode \in ExitCodes : OrdExit(id, exitCode)
    \/ \E id \in Ids : OrdLineFlush(id)
    \/ \E id \in Ids : PtyPurge(id)

SpecOrder == InitOrder /\ [][NextOrder]_vars

-----------------------------------------------------------------------------
(* SpecDir: a directory of files; the watch, the count and the tree of it *)

\* longest path of a file below workDir, and most files in the directory
MaxDirDepth == 2
MaxDirFiles == 2

\* entry names: in the fixed set with and without a leading dot, the
\* allow-listed directory, other dot-names, and names with no or an inner dot
DirNames ==
    { <<".", "git">>, <<"node_modules">>, <<".", "claude">>, <<".", "env">>,
      <<"src">>, <<"a", ".", "js">> }

DirPaths == SeqsUpTo(DirNames, MaxDirDepth) \ {<<>>}

\* a directory holds no entry that is both a file and a directory
Directories ==
    {files \in SubsetsUpTo(DirPaths, MaxDirFiles) :
        \A f \in files : ~EntryIsDirectory(files, f)}

InitDir ==
    /\ SessionsInit /\ FwInit /\ GwInit
    /\ RingInit(1) /\ RawInit(1) /\ LineBufferInit(<<>>)
    /\ fileCall = NoFileCall
    /\ dirFiles \in Directories
    /\ AuxInit
    /\ dirResult = NoDirResult
    /\ inbound = NoInbound

dirRest == <<ringVars, rawVars, lbVars, smVars, fwVars, gwVars, inbound>>

NextDir ==
    \/ WatchDir /\ UNCHANGED dirRest
    \/ CountDir /\ UNCHANGED dirRest
    \/ TreeDir /\ UNCHANGED dirRest

SpecDir == InitDir /\ [][NextDir]_vars

-----------------------------------------------------------------------------
(* Section 8: the message router; SpecMsg: one inbound message *)

\* the case labels of the file commands
FileTypes == {"file.read", "file.write", "file.create", "file.delete"}

\* the case labels of the router's switch
MessageTypes ==
    {"session.create", "session.prompt", "terminal.input", "terminal.resize",
     "session.kill", "files.requestTree", "fs.browse", "file.read", "file.write",
     "file.create", "file.delete", "claude.requestConfig"}

\* the payload fields each case tests before it goes on
Required(type) ==
    CASE type = "session.create"  -> {"workDir"}
      [] type = "session.prompt"  -> {"sessionId", "prompt"}
      [] type = "terminal.input"  -> {"sessionId", "data"}
      [] type = "terminal.resize" -> {"sessionId", "cols", "rows"}
      [] type = "fs.browse"       -> {}
      [] type \in {"file.read", "file.create", "file.delete"}
                                  -> {"sessionId", "filePath"}
      [] type = "file.write"      -> {"sessionId", "filePath", "content"}
      [] OTHER                    -> {"sessionId"}

\* the first property each case destructures from msg.payload
FirstField(type) ==
    CASE type = "session.create" -> "workDir"
      [] type = "fs.browse"      -> "path"
      [] OTHER                   -> "sessionId"

\* the message of the TypeError `const { field, ... } = null` throws
DestructureError(field) ==
    <<"Cannot destructure property '", field, "' of 'msg.payload' as it is null.">>

\* what the router answers before it calls anything ("-": it goes on to the
\* case's calls; "uncaught": msg.type of a null msg throws outside the try,
\* nothing is sent and the handler's promise is rejected)
RouteReply(m) ==
    IF m.json = "invalid" THEN "INVALID_MESSAGE"
    ELSE IF m.json = "null" THEN "uncaught"
    ELSE IF m.type = "absent" \/ m.payload = "absent" THEN "INVALID_MESSAGE"
    ELSE IF m.type \notin MessageTypes THEN "INVALID_MESSAGE"
    ELSE IF m.payload = "null" THEN WireCode(DestructureError(FirstField(m.type)))
    ELSE IF Required(m.type) \ m.fields # {} THEN "INVALID_MESSAGE"
    ELSE "-"

\* the values the fields of a complete message carry
MsgSessionId == 1
MsgPrompt == <<"p">>
MsgData == <<"d">>
MsgCols == 80
MsgRows == 24
MsgFilePath == <<"a">>

\* the router handed the message to this callee and answered with reply
Handled(callee, reply) == inbound' = [inbound EXCEPT !.reply = reply, !.calls = callee]

\* sessionManager.get(sessionId) of the cases that read a session's directory
GetReply(done) == IF MsgSessionId \in DOMAIN sessions THEN done ELSE "SESSION_NOT_FOUND"

\* the error code a throw of getSession is answered with ("-": no throw)
ThrowReply == IF GetSession(MsgSessionId) = "OK" THEN "-"
              ELSE WireCode(<<GetSession(MsgSessionId)>>)

\* ws.on('message'): the router handles the message that arrived
Route(workDir, spawnOk, ok, isDir, large) ==
    /\ inbound.reply = "pending"
    /\ IF RouteReply(inbound) # "-"
       THEN /\ Handled("-", RouteReply(inbound))
            /\ lastCall' = [NoCall EXCEPT !.op = "ws.message"]
            /\ UNCHANGED <<sessions, procs, nextId, purgeTimers, autoRunTimers,
                           watchers, fwVars, exitEvents, updateEvents, resized,
                           fileCall, dirResult>>
       ELSE CASE inbound.type = "session.create" ->
                    /\ WsCreate(workDir, NoAgentType, spawnOk)
                    /\ Handled("sessionManager.create",
                               WsCreateCall(workDir, NoAgentType, spawnOk).reply)
                    /\ UNCHANGED <<resized, fileCall, dirResult>>
              [] inbound.type = "session.prompt" ->
                    /\ SendPrompt(MsgSessionId, MsgPrompt)
                    /\ Handled("sessionManager.sendPrompt", ThrowReply)
                    /\ UNCHANGED <<resized, fileCall, dirResult>>
              [] inbound.type = "terminal.input" ->
                    /\ WriteRaw(MsgSessionId, MsgData)
                    /\ Handled("sessionManager.writeRaw", ThrowReply)
                    /\ UNCHANGED <<resized, fileCall, dirResult>>
              [] inbound.type = "terminal.resize" ->
                    /\ Resize(MsgSessionId, MsgCols, MsgRows, ok)
                    /\ Handled("sessionManager.resize",
                               ResizeReply(MsgSessionId, MsgCols, MsgRows, ok))
                    /\ lastCall' = [NoCall EXCEPT !.op = "ws.message"]
                    /\ UNCHANGED <<procs, nextId, purgeTimers, autoRunTimers, watchers,
                                   fwVars, exitEvents, updateEvents, fileCall, dirResult>>
              [] inbound.type = "session.kill" ->
                    /\ WsKill(MsgSessionId)
                    /\ Handled("sessionManager.kill", "-")
                    /\ UNCHANGED <<resized, fileCall, dirResult>>
              [] inbound.type = "files.requestTree" ->
                    /\ Handled("sessionManager.get", GetReply("files.tree"))
                    /\ dirResult' = IF MsgSessionId \in DOMAIN sessions
                                    THEN [dirResult EXCEPT
                                            !.ran = @ \cup {"tree"},
                                            !.tree = BuildFileTree(dirFiles, <<>>, 0)]
                                    ELSE dirResult
                    /\ lastCall' = [NoCall EXCEPT !.op = "ws.message"]
                    /\ UNCHANGED <<sessions, procs, nextId, purgeTimers, autoRunTimers,
                                   watchers, fwVars, exitEvents, updateEvents, resized,
                                   fileCall>>
              [] inbound.type = "claude.requestConfig" ->
                    /\ Handled("sessionManager.get", GetReply("claude.config"))
                    /\ lastCall' = [NoCall EXCEPT !.op = "ws.message"]
                    /\ UNCHANGED <<sessions, procs, nextId, purgeTimers, autoRunTimers,
                                   watchers, fwVars, exitEvents, updateEvents, resized,
                                   fileCall, dirResult>>
              [] inbound.type = "fs.browse" ->
                    /\ Handled("fs.promises.stat",
                               IF ok /\ isDir THEN "fs.browse.result" ELSE "INVALID_PATH")
                    /\ lastCall' = [NoCall EXCEPT !.op = "ws.message"]
                    /\ UNCHANGED <<sessions, procs, nextId, purgeTimers, autoRunTimers,
                                   watchers, fwVars, exitEvents, updateEvents, resized,
                                   fileCall, dirResult>>
              [] OTHER ->
                    /\ FileCommand(isDir, ok, large)
                    /\ Handled("sessionManager.get", fileCall'.reply)
                    /\ lastCall' = [NoCall EXCEPT !.op = "ws.message"]
                    /\ UNCHANGED <<sessions, procs, nextId, purgeTimers, autoRunTimers,
                                   watchers, fwVars, exitEvents, updateEvents, resized,
                                   dirResult>>

\* what JSON.parse makes of the raw message: it throws, returns null, or
\* returns another value
JsonOutcomes == {"invalid", "null", "value"}

\* msg.type: absent (or falsy), a type the switch has no case for, or a case
MsgTypeFields == {"absent", "unknown"} \cup MessageTypes

\* msg.payload: absent, null, or an object
MsgPayloads == {"absent", "null", "object"}

\* the messages: for a value that JSON.parse returned, every type with every
\* payload, and for an object payload every subset of the case's fields
Messages ==
    {[json |-> j, type |-> "absent", payload |-> "absent", fields |-> {},
      reply |-> "pending", calls |-> "-"] : j \in {"invalid", "null"}}
    \cup
    {[json |-> "value", type |-> t, payload |-> p, fields |-> {},
      reply |-> "pending", calls |-> "-"] :
        t \in MsgTypeFields, p \in {"absent", "null"}}
    \cup
    UNION {{[json |-> "value", type |-> t, payload |-> "object", fields |-> f,
             reply |-> "pending", calls |-> "-"] : f \in SUBSET Required(t)} :
           t \in MsgTypeFields}

\* the registry the message finds: empty, or holding session 1
InitMsg ==
    /\ \E has \in BOOLEAN :
          /\ sessions = [id \in (IF has THEN {1} ELSE {}) |-> NewSession("/dir", "claude")]
          /\ procs = [id \in (IF has THEN {1} ELSE {}) |-> NewProc]
          /\ nextId = IF has THEN 1 ELSE 0
          /\ autoRunTimers = IF has THEN {1} ELSE {}
          /\ watchers = IF has THEN {1} ELSE {}
          /\ updateEvents = [id \in Ids |-> IF has /\ id = 1 THEN 1 ELSE 0]
    /\ purgeTimers = {}
    /\ exitEvents = [id \in Ids |-> 0]
    /\ lastCall = NoCall
    /\ FwInit /\ GwInit
    /\ RingInit(1) /\ RawInit(1) /\ LineBufferInit(<<>>)
    /\ inbound \in Messages
    /\ fileCall = IF RouteReply(inbound) = "-" /\ inbound.type \in FileTypes
                  THEN FileRequest(inbound.type, MsgSessionId, MsgFilePath)
                  ELSE NoFileCall
    /\ dirFiles = {<<<<"src">>>>}
    /\ AuxInit
    /\ dirResult = NoDirResult

MsgStep(workDir, spawnOk, ok, isDir, large) ==
    /\ Route(workDir, spawnOk, ok, isDir, large)
    /\ UNCHANGED <<ringVars, rawVars, lbVars, dirFiles, auxVars>>
    /\ UNCHANGED <<clients, alive, pinged, sent, rawData, pendingLine>>

NextMsg ==
    \E workDir \in GwWorkDirs, spawnOk \in BOOLEAN, ok \in BOOLEAN, isDir \in BOOLEAN,
       large \in BOOLEAN :
        MsgStep(workDir, spawnOk, ok, isDir, large)

SpecMsg == InitMsg /\ [][NextMsg]_vars

-----------------------------------------------------------------------------
(* SpecCmd: commands from the connections, one after the other, among the *)
(* events of the sessions                                                  *)

\* the codes of the error replies, and the reply of a failed file command
ErrorReplies ==
    {"INVALID_MESSAGE", "SESSION_NOT_FOUND", "SESSION_TERMINATED", "MAX_SESSIONS",
     "SPAWN_FAILED", "INVALID_PATH", "error"}

\* the router's error reply broadcast instead of sent to the requester
RouteSendsBroadcast(c, reply, type, newId) ==
    IF reply = "uncaught" THEN <<>>
    ELSE IF reply \in ErrorReplies THEN <<Broadcast("error", 0)>>
    ELSE IF reply = "-"
         THEN (IF type = "session.create" THEN <<Broadcast("session.update", newId)>>
               ELSE <<>>)
    ELSE SendToClient(c, reply, MsgSessionId, <<>>)

\* what the router sends for a message of connection c that it answered with
\* reply: sendToClient(ws, 'error', ...) for every error, the broadcast of
\* session.update for a create, sendToClient(ws, ...) for the results
RouteSends(c, reply, type, newId) ==
    IF reply = "uncaught" THEN <<>>
    ELSE IF reply \in ErrorReplies THEN SendToClient(c, "error", 0, <<>>)
    ELSE IF reply = "-"
         THEN (IF type = "session.create" THEN <<Broadcast("session.update", newId)>>
               ELSE <<>>)
    ELSE SendToClient(c, reply, MsgSessionId, <<>>)

\* a message of connection c arrives
CmdArrive(c, m) ==
    /\ inbound.reply # "pending"
    /\ clients[c] = "open"
    /\ inbound' = m
    /\ fileCall' = IF RouteReply(m) = "-" /\ m.type \in FileTypes
                   THEN FileRequest(m.type, MsgSessionId, MsgFilePath)
                   ELSE NoFileCall
    /\ issuer' = c
    /\ sent' = <<>>
    /\ lastCall' = [NoCall EXCEPT !.op = "ws.arrive", !.id = c]
    /\ UNCHANGED <<sessions, procs, nextId, purgeTimers, autoRunTimers, watchers,
                   exitEvents, updateEvents, fwVars, clients, alive, pinged, resized,
                   rawData, pendingLine, ringVars, rawVars, lbVars, dirFiles, dirResult,
                   fwTrace, server, erred, received, edgeVars>>

\* ws.on('message') for it: the router's calls and what it sends
CmdRoute(workDir, spawnOk, ok, isDir, large) ==
    /\ Route(workDir, spawnOk, ok, isDir, large)
    /\ sent' = RouteSends(issuer, inbound'.reply, inbound.type, nextId + 1)
    /\ erred' = IF inbound'.reply \in ErrorReplies /\ clients[issuer] = "open"
                THEN erred \cup {issuer} ELSE erred
    /\ UNCHANGED <<clients, alive, pinged, rawData, pendingLine, ringVars, rawVars,
                   lbVars, dirFiles, fwTrace, server, issuer, received, edgeVars>>

\* the messages of SpecCmd: what is not JSON, null, and of every type the
\* message with no payload field and the one with every field its case tests
CmdMessages ==
    {m \in Messages : m.payload = "object" /\ m.fields \in {{}, Required(m.type)}}
    \cup {m \in Messages : m.json # "value"}
    \cup {m \in Messages : m.type = "session.create" /\ m.payload = "null"}

\* the outcomes of the calls a message leads to: of the spawn for a create,
\* of the filesystem calls for the others (a pty is written to once in a run)
CmdRouteCreate(workDir, spawnOk) ==
    /\ inbound.type = "session.create"
    /\ CmdRoute(workDir, spawnOk, TRUE, TRUE, FALSE)

CmdRouteOther(ok, isDir, large) ==
    /\ inbound.type # "session.create"
    /\ inbound.type \in {"session.prompt", "terminal.input"} =>
          (MsgSessionId \in DOMAIN procs => procs[MsgSessionId].written = <<>>)
    /\ CmdRoute("/dir", TRUE, ok, isDir, large)

NextCmd ==
    \/ \E c \in GwConns : GwConnect(c) /\ UNCHANGED <<ringVars, rawVars, lbVars, fileVars>>
    \/ \E c \in GwConns, m \in CmdMessages : CmdArrive(c, m)
    \/ \E workDir \in GwWorkDirs, spawnOk \in BOOLEAN : CmdRouteCreate(workDir, spawnOk)
    \/ \E ok \in BOOLEAN, isDir \in BOOLEAN, large \in BOOLEAN :
            CmdRouteOther(ok, isDir, large)
    \/ \E id \in Ids : PtyOutput(id, TRUE)
    \/ \E id \in Ids, exitCode \in ExitCodes : PtyExit(id, exitCode)
    \/ \E id \in Ids : PtyPurge(id)

SpecCmd == InitGw /\ [][NextCmd]_vars

-----------------------------------------------------------------------------
(* SpecShut: the shutdown of the process (server.js 1233-1258) *)

\* the most termination signals the process receives
MaxSignals == 2

\* the process has not exited
Running == server.exited = "no"

\* shutdown that arms no forced-exit timer
NoForceExit(n) == n

\* setTimeout(() => process.exit(1), CONFIG.shutdownTimeoutMs).unref(): the
\* forced-exit timers armed afterwards
ArmForceExit(n) == n + 1

\* wss.close(cb): a gateway that is open stops accepting and starts to
\* close; one that is closing or closed stays so
WssClose(state) == IF state = "open" THEN "closing" ELSE state

\* shutdown(signal), for SIGINT, SIGTERM (and SIGHUP on Windows)
ShutdownSignal ==
    /\ Running
    /\ server.signals < MaxSignals
    /\ Shutdown
    /\ server' = [server EXCEPT !.signals = @ + 1,
                                !.wss = WssClose(@),
                                !.forceExit = ArmForceExit(@)]
    /\ sent' = <<>>
    /\ UNCHANGED <<clients, alive, pinged, resized, rawData, pendingLine>>

\* the gateway has closed: the callback of wss.close calls httpServer.close
WssClosed ==
    /\ Running
    /\ server.wss = "closing"
    /\ server' = [server EXCEPT !.wss = "closed", !.http = "closing"]
    /\ lastCall' = [NoCall EXCEPT !.op = "wss.closed"]

\* the HTTP server has closed: its callback calls process.exit(0)
HttpClosed ==
    /\ Running
    /\ server.http = "closing"
    /\ server' = [server EXCEPT !.http = "closed", !.exited = "0"]
    /\ lastCall' = [NoCall EXCEPT !.op = "http.closed"]

\* a forced-exit timer fires in a process that still runs: process.exit(1)
ForceExitFire ==
    /\ Running
    /\ server.forceExit > 0
    /\ server' = [server EXCEPT !.forceExit = @ - 1, !.exited = "1"]
    /\ lastCall' = [NoCall EXCEPT !.op = "timer.forceExit"]

shutRest == <<sessions, procs, nextId, purgeTimers, autoRunTimers, watchers,
              exitEvents, updateEvents, fwVars, gwVars, ringVars, rawVars, lbVars,
              fileCall, dirFiles, dirResult, inbound, fwTrace, issuer, erred, received, edgeVars>>

ShutSignalStep ==
    /\ ShutdownSignal
    /\ UNCHANGED <<ringVars, rawVars, lbVars, fileCall, dirFiles, dirResult, inbound,
                   fwTrace, issuer, erred, received, edgeVars>>

ForceExitStep == ForceExitFire /\ UNCHANGED shutRest

NextShut ==
    \/ \E dir \in GwWorkDirs : Running /\ server.http = "listening" /\ PtyCreate(dir)
    \/ \E id \in Ids, exitCode \in ExitCodes : Running /\ PtyExit(id, exitCode)
    \/ \E id \in Ids : Running /\ PtyPurge(id)
    \/ \E id \in Ids : Running /\ PtyForceKill(id)
    \/ \E id \in Ids : Running /\ PtyKill(id)
    \/ ShutSignalStep
    \/ WssClosed /\ UNCHANGED shutRest
    \/ HttpClosed /\ UNCHANGED shutRest
    \/ ForceExitStep

SpecShut == InitGw /\ [][NextShut]_vars

\* SpecShut with the scheduling the runtime gives: an armed timer of a
\* process that still runs fires
FairShut == SpecShut /\ WF_vars(ForceExitStep)

-----------------------------------------------------------------------------
(* SpecFW: one FileWatcher, its callers and its timers *)

fwRest == <<sessions, procs, nextId, purgeTimers, autoRunTimers, exitEvents,
            updateEvents, ringVars, rawVars, lbVars, gwVars, fileVars>>

FwWatch(id) ==
    /\ Watch(id)
    /\ lastCall' = [NoCall EXCEPT !.op = "fw.watch", !.id = id]
    /\ UNCHANGED fwRest

\* unwatch(id); err and reply record what the call found
FwUnwatch(id) ==
    /\ Unwatch(id)
    /\ lastCall' = [NoCall EXCEPT !.op = "fw.unwatch", !.id = id,
                                  !.err = IF id \in watchers THEN "entry" ELSE "no entry",
                                  !.reply = IF id \in debounceTimers THEN "armed"
                                            ELSE "not armed"]
    /\ UNCHANGED fwRest

FwUnwatchAll ==
    /\ UnwatchAll
    /\ lastCall' = [NoCall EXCEPT !.op = "fw.unwatchAll"]
    /\ UNCHANGED fwRest

FwFsEvent(id) ==
    /\ FsEvent(id)
    /\ lastCall' = [NoCall EXCEPT !.op = "fw.event"]
    /\ UNCHANGED fwRest

\* (one recount at a time per session in SpecFW)
FwDebounceFire(id) ==
    /\ counting[id] = 0
    /\ DebounceFire(id)
    /\ lastCall' = [NoCall EXCEPT !.op = "timer.debounce"]
    /\ UNCHANGED fwRest

FwCountDone(id, ok) ==
    /\ CountDone(id, ok)
    /\ lastCall' = [NoCall EXCEPT !.op = "fw.counted"]
    /\ UNCHANGED fwRest

InitFW ==
    /\ SessionsInit /\ FwInit /\ GwInit /\ FileInit
    /\ RingInit(1) /\ RawInit(1) /\ LineBufferInit(<<>>)

NextFW ==
    \/ \E id \in Ids : FwWatch(id)
    \/ \E id \in Ids : FwUnwatch(id)
    \/ FwUnwatchAll
    \/ \E id \in Ids : FwFsEvent(id)
    \/ \E id \in Ids : FwDebounceFire(id)
    \/ \E id \in Ids, ok \in BOOLEAN : FwCountDone(id, ok)

SpecFW == InitFW /\ [][NextFW]_vars

-----------------------------------------------------------------------------
(* SpecBurst: bursts of filesystem events on watched sessions *)

\* the most bursts per session, events per burst and recounts in flight
MaxBursts == 2
MaxBurstEvents == 3
MaxInFlight == 2

\* CONFIG.fileCountRatio
fileCountRatio == 20

\* what countFiles finds under the workDir when its walk is done
FileCounts == {0, 19, 20, 41}

\* Math.floor(fileCount / CONFIG.fileCountRatio) of a count, which is a
\* non-negative integer
DrinkCount(fileCount) == fileCount \div fileCountRatio

\* the payload of 'files-update'
FilesUpdate(id, fileCount) ==
    [sessionId |-> id, fileCount |-> fileCount, drinkCount |-> DrinkCount(fileCount)]

\* an event for the watch of session id: it starts a burst when no debounce
\* window is running, else it falls into the running one
BurstEvent(id) ==
    /\ fwTrace[id].events < MaxBurstEvents
    /\ id \in debounceTimers \/ fwTrace[id].bursts < MaxBursts
    /\ FsEvent(id)
    /\ fwTrace' = [fwTrace EXCEPT ![id] =
                      IF id \in debounceTimers
                      THEN [@ EXCEPT !.events = @ + 1]
                      ELSE [@ EXCEPT !.events = 1, !.bursts = @ + 1]]
    /\ lastCall' = [NoCall EXCEPT !.op = "fw.event", !.id = id]

\* the debounce window of session id elapses with no further event
BurstFire(id) ==
    /\ counting[id] < MaxInFlight
    /\ DebounceFire(id)
    /\ fwTrace' = [fwTrace EXCEPT ![id].recounts = @ + 1, ![id].events = 0,
                                   ![id].lastBurst = fwTrace[id].events]
    /\ lastCall' = [NoCall EXCEPT !.op = "timer.debounce", !.id = id]

\* a countFiles of session id resolves with fileCount (every readdir failure
\* is caught inside its walk): the count is stored and 'files-update' emitted
BurstCounted(id, fileCount) ==
    /\ CountDone(id, TRUE)
    /\ fwTrace' = [fwTrace EXCEPT ![id].updates = Append(@, FilesUpdate(id, fileCount))]
    /\ lastCall' = [NoCall EXCEPT !.op = "fw.counted", !.id = id]

burstRest == <<sessions, procs, nextId, purgeTimers, autoRunTimers, exitEvents,
               updateEvents, ringVars, rawVars, lbVars, gwVars, fileCall, dirFiles,
               dirResult, inbound, server, issuer, erred, received, edgeVars>>

NextBurst ==
    \/ \E id \in Ids : id \notin watchers /\ FwWatch(id)
    \/ \E id \in Ids : BurstEvent(id) /\ UNCHANGED burstRest
    \/ \E id \in Ids : BurstFire(id) /\ UNCHANGED burstRest
    \/ \E id \in Ids, fileCount \in FileCounts :
            BurstCounted(id, fileCount) /\ UNCHANGED burstRest

SpecBurst == InitFW /\ [][NextBurst]_vars

-----------------------------------------------------------------------------
(* SpecFile: the file commands on a gateway with one session in "/dir" *)

FileOps == {"file.read", "file.write", "file.create", "file.delete"}

FilePaths == SeqsUpTo(PathAlphabet, MaxPathLen)

\* the state a successful 'session.create' for "/dir" leaves, and one file
\* command that arrived
InitFile ==
    /\ sessions = [id \in {1} |-> NewSession("/dir", "claude")]
    /\ procs = [id \in {1} |-> NewProc]
    /\ nextId = 1
    /\ purgeTimers = {}
    /\ autoRunTimers = {1}
    /\ watchers = {1}
    /\ exitEvents = [id \in Ids |-> 0]
    /\ updateEvents = [id \in Ids |-> IF id = 1 THEN 1 ELSE 0]
    /\ lastCall = [op |-> "ws.create", id |-> 1, workDir |-> "/dir", err |-> "OK",
                   reply |-> "-"]
    /\ FwInit /\ GwInit
    /\ \E op \in FileOps, id \in Ids \cup {0}, filePath \in FilePaths :
            fileCall = FileRequest(op, id, filePath)
    /\ dirFiles = {}
    /\ AuxInit
    /\ dirResult = NoDirResult
    /\ inbound = NoInbound
    /\ RingInit(1) /\ RawInit(1) /\ LineBufferInit(<<>>)

FileStep(isDir, ok, large) ==
    /\ FileCommand(isDir, ok, large)
    /\ UNCHANGED <<dirFiles, auxVars, dirResult, inbound>>
    /\ UNCHANGED <<ringVars, rawVars, lbVars, smVars, fwVars, gwVars>>

NextFile ==
    \E isDir \in BOOLEAN, ok \in BOOLEAN, large \in BOOLEAN :
        FileStep(isDir, ok, large)

SpecFile == InitFile /\ [][NextFile]_vars

-----------------------------------------------------------------------------
(* Spec: the SessionManager with the gateway handlers and timers around it *)

Init ==
    /\ SessionsInit /\ FwInit /\ GwInit /\ FileInit
    /\ RingInit(1) /\ RawInit(1) /\ LineBufferInit(<<>>)

Next ==
    \/ \E workDir \in WorkDirs, agentType \in AgentTypes \cup {NoAgentType},
          spawnOk \in BOOLEAN :
            /\ WsCreate(workDir, agentType, spawnOk)
            /\ UNCHANGED <<ringVars, rawVars, lbVars, gwVars, fileVars>>
    \/ \E dir \in WorkDirs, agentType \in AgentTypes \cup {NoAgentType},
          spawnOk \in BOOLEAN :
            /\ RestCreate(dir, agentType, spawnOk)
            /\ UNCHANGED <<ringVars, rawVars, lbVars, gwVars, fileVars>>
    \/ \E id \in Ids \cup {0} : WsKill(id) /\ UNCHANGED <<ringVars, rawVars, lbVars, gwVars, fileVars>>
    \/ \E id \in Ids : RestGet(id) /\ UNCHANGED <<ringVars, rawVars, lbVars, gwVars, fileVars>>
    \/ \E id \in Ids : RestDelete(id) /\ UNCHANGED <<ringVars, rawVars, lbVars, gwVars, fileVars>>
    \/ Shutdown /\ UNCHANGED <<ringVars, rawVars, lbVars, gwVars, fileVars>>
    \/ \E id \in Ids, exitCode \in ExitCodes :
            ProcExit(id, exitCode) /\ UNCHANGED <<ringVars, rawVars, lbVars, gwVars, fileVars>>
    \/ \E id \in Ids : ForceKillFire(id) /\ UNCHANGED <<ringVars, rawVars, lbVars, gwVars, fileVars>>
    \/ \E id \in Ids : PurgeFire(id) /\ UNCHANGED <<ringVars, rawVars, lbVars, gwVars, fileVars>>
    \/ \E id \in Ids : AutoRunFire(id) /\ UNCHANGED <<ringVars, rawVars, lbVars, gwVars, fileVars>>

Spec == Init /\ [][Next]_vars

\* Spec with the scheduling the runtime gives: a pending registry-removal
\* timer fires, and a process that was sent a signal exits (SIGTERM, then
\* SIGKILL from the forced-kill timer)
ProcExitStep(id) ==
    /\ id \in DOMAIN procs
    /\ procs[id].signals # {}
    /\ \E exitCode \in ExitCodes : ProcExit(id, exitCode)
    /\ UNCHANGED <<ringVars, rawVars, lbVars, gwVars, fileVars>>

PurgeStep(id) == PurgeFire(id) /\ UNCHANGED <<ringVars, rawVars, lbVars, gwVars, fileVars>>

FairSpec ==
    /\ Spec
    /\ \A id \in Ids : WF_vars(ProcExitStep(id)) /\ WF_vars(PurgeStep(id))

-----------------------------------------------------------------------------
(* SpecErr: a command throws, the router's catch block picks the wire code *)

\* the workDir and agentType texts of the requests, among them texts that
\* contain a substring the catch block looks for
ErrWorkDirs == WorkDirs \cup {"/missing/Maximum sessions", "/Maximum sessions.txt"}
ErrAgentTypes == AgentTypes \cup {"spawn", "workDir"}

\* 'session.create' (server.js 871-881) when sessionManager.create throws
ThrowCreate(workDir, agentType, spawnOk) ==
    LET err == CreateOutcome(workDir, agentType, spawnOk)
    IN  /\ thrown.err = "none" \/ thrown.code # "-"
        /\ workDir # ""
        /\ err # "OK"
        /\ thrown' = [err |-> err, workDir |-> workDir, agentType |-> agentType,
                      message |-> ErrorMessage(err, workDir, agentType), code |-> "-"]

\* a command on a session (server.js 883-925) when getSession throws
ThrowSession(id) ==
    LET err == GetSession(id)
    IN  /\ thrown.err = "none" \/ thrown.code # "-"
        /\ err # "OK"
        /\ thrown' = [err |-> err, workDir |-> "", agentType |-> "",
                      message |-> <<err>>, code |-> "-"]

\* the catch block of the router (server.js 1136-1147)
CatchError ==
    /\ thrown.err # "none" /\ thrown.code = "-"
    /\ thrown' = [thrown EXCEPT !.code = WireCode(thrown.message)]

\* a registry with no session, an active one, or a terminated one
InitErr ==
    /\ \E has \in {"none", "active", "terminated"} :
          /\ sessions = [id \in (IF has = "none" THEN {} ELSE {1}) |->
                            [NewSession("/dir", "claude") EXCEPT !.state = has]]
          /\ procs = [id \in (IF has = "none" THEN {} ELSE {1}) |-> NewProc]
          /\ nextId = IF has = "none" THEN 0 ELSE 1
          /\ watchers = IF has = "none" THEN {} ELSE {1}
          /\ updateEvents = [id \in Ids |-> IF has # "none" /\ id = 1 THEN 1 ELSE 0]
    /\ purgeTimers = {} /\ autoRunTimers = {}
    /\ exitEvents = [id \in Ids |-> 0]
    /\ lastCall = NoCall
    /\ FwInit /\ GwInit
    /\ RingInit(1) /\ RawInit(1) /\ LineBufferInit(<<>>)
    /\ inbound = NoInbound
    /\ fileCall = NoFileCall
    /\ dirFiles = {}
    /\ AuxInit
    /\ dirResult = NoDirResult

errRest == <<ringVars, rawVars, lbVars, smVars, fwVars, gwVars, fileCall, dirFiles,
             dirResult, inbound, fwTrace, server, issuer, erred, received,
             wsService, bar>>

NextErr ==
    \/ \E workDir \in ErrWorkDirs, agentType \in ErrAgentTypes, spawnOk \in BOOLEAN :
          ThrowCreate(workDir, agentType, spawnOk) /\ UNCHANGED errRest
    \/ \E id \in Ids : ThrowSession(id) /\ UNCHANGED errRest
    \/ CatchError /\ UNCHANGED errRest

SpecErr == InitErr /\ [][NextErr]_vars

-----------------------------------------------------------------------------
(* SpecWs: the frontend WebSocketService (frontend/src/services/websocket.js) *)

\* the sockets one behaviour makes
MaxSockets == 6

\* this.maxReconnectDelay
maxReconnectDelay == 30000

\* ws.close() on socket i: a socket that is connecting or open starts its
\* closing handshake, the close event comes later
SocketClose(sockets, i) ==
    IF i # 0 /\ sockets[i] \in {"connecting", "open"}
    THEN [sockets EXCEPT ![i] = "closing"]
    ELSE sockets

\* connect(url) (16-53): closes the current socket if there is one, makes a
\* new one and attaches the four handlers to it
ServiceConnect(w) ==
    [w EXCEPT !.sockets = Append(SocketClose(w.sockets, w.ws), "connecting"),
              !.ws = Len(w.sockets) + 1]

\* Math.min(this.reconnectDelay * 2, this.maxReconnectDelay)
NextDelay(delay) ==
    IF delay * 2 < maxReconnectDelay THEN delay * 2 ELSE maxReconnectDelay

\* scheduleReconnect() (55-62)
ScheduleReconnect(w) ==
    IF w.reconnectTimer # 0 THEN w
    ELSE [w EXCEPT !.reconnectTimer = w.timersMade + 1,
                   !.timersMade = w.timersMade + 1,
                   !.pending = w.pending \cup {[handle |-> w.timersMade + 1,
                                                delay |-> w.reconnectDelay]},
                   !.lastDelay = w.reconnectDelay,
                   !.reconnectDelay = NextDelay(w.reconnectDelay)]

\* clearTimeout(handle)
ClearTimeout(pending, handle) == {t \in pending : t.handle # handle}

\* the application calls connect() (BarScene.setupWebSocketListeners, part_005 1286)
WsConnect ==
    /\ Len(wsService.sockets) < MaxSockets
    /\ wsService' = [ServiceConnect(wsService) EXCEPT !.stopped = FALSE, !.lastOp = "connect"]

\* ws.onopen of socket i (27-31)
WsOnOpen(i) ==
    /\ i \in DOMAIN wsService.sockets
    /\ wsService.sockets[i] = "connecting"
    /\ wsService' = [wsService EXCEPT !.sockets[i] = "open",
                                      !.connected = TRUE,
                                      !.reconnectDelay = 1000,
                                      !.lastOp = "open"]

\* ws.onclose of socket i (33-37): the server or the network closed it, the
\* connection failed, or the closing handshake of a close() call finished
WsOnClose(i) ==
    /\ i \in DOMAIN wsService.sockets
    /\ wsService.sockets[i] # "closed"
    /\ wsService' =
          [ScheduleReconnect([wsService EXCEPT !.sockets[i] = "closed",
                                               !.connected = FALSE])
              EXCEPT !.lastOp = IF wsService.reconnectTimer = 0
                                THEN "close-armed" ELSE "close"]

\* the callback of a reconnect timer (57-60)
WsTimerFire(t) ==
    /\ t \in wsService.pending
    /\ Len(wsService.sockets) < MaxSockets
    /\ wsService' =
          [ServiceConnect([wsService EXCEPT !.reconnectTimer = 0,
                                     !.pending = wsService.pending \ {t}])
              EXCEPT !.lastOp = "reconnect"]

\* disconnect() (106-116)
WsDisconnect ==
    /\ wsService.lastOp # "disconnect"
    /\ wsService' =
          [wsService EXCEPT
              !.pending = IF wsService.reconnectTimer # 0
                          THEN ClearTimeout(wsService.pending, wsService.reconnectTimer)
                          ELSE wsService.pending,
              !.reconnectTimer = 0,
              !.sockets = SocketClose(wsService.sockets, wsService.ws),
              !.ws = 0,
              !.connected = FALSE,
              !.stopped = TRUE,
              !.lastOp = "disconnect"]

InitWs == InitErr /\ DOMAIN sessions = {}

wsRest == <<ringVars, rawVars, lbVars, smVars, fwVars, gwVars, fileCall, dirFiles,
            dirResult, inbound, fwTrace, server, issuer, erred, received,
            thrown, bar>>

NextWs ==
    \/ WsConnect /\ UNCHANGED wsRest
    \/ \E i \in 1..MaxSockets : WsOnOpen(i) /\ UNCHANGED wsRest
    \/ \E i \in 1..MaxSockets : WsOnClose(i) /\ UNCHANGED wsRest
    \/ \E t \in wsService.pending : WsTimerFire(t) /\ UNCHANGED wsRest
    \/ WsDisconnect /\ UNCHANGED wsRest

SpecWs == InitWs /\ [][NextWs]_vars

-----------------------------------------------------------------------------
(* SpecBar: the BarScene, its patrons and its seats (part_005 1228-1414) *)

\* the seats of the bar (SEATS of config/seats.js has 9; the model fewer)
MaxSeats == 2
SEATS == 1..MaxSeats

\* the sessions the backend reports: one more than there are seats; 0 is the
\* demo patron of the Shift+D key
BarSessions == 1..(MaxSeats + 1)
DemoId == 0

\* the states a session.update payload carries
PayloadStates == {"creating", "active", "terminated"}

\* a seat picker that ignores occupiedSeats
FindAnySeat(b) == SEATS

\* findAvailableSeat() (1410-1414): the seats GetRandom picks from ({}: null)
FindAvailableSeat(b) == {seat \in SEATS : seat \notin b.occupiedSeats}

\* the seat findAvailableSeat() can return to a caller (0: null)
SeatChoices(b) == IF FindAvailableSeat(b) = {} THEN {0} ELSE FindAvailableSeat(b)

\* addPatron(sessionId, label, agentType) (1382-1408) when findAvailableSeat
\* returned seat
AddPatron(b, sessionId, seat) ==
    IF seat = 0 THEN [b EXCEPT !.lastOp = "no-seat"]
    ELSE [b EXCEPT !.occupiedSeats = @ \cup {seat},
                   !.patrons = [id \in DOMAIN b.patrons \cup {sessionId} |->
                                   IF id = sessionId THEN seat ELSE b.patrons[id]],
                   !.lastOp = "seated"]

\* handleSessionUpdate(payload) (1313-1331)
HandleSessionUpdate(b, id, state, seat) ==
    IF id \in DOMAIN b.patrons THEN [b EXCEPT !.lastOp = "known"]
    ELSE IF state \in {"active", "creating"} THEN AddPatron(b, id, seat)
    ELSE [b EXCEPT !.lastOp = "ignored"]

\* handleSessionTerminated(payload) (1333-1358)
HandleSessionTerminated(b, sessionId) ==
    IF sessionId \notin DOMAIN b.patrons THEN [b EXCEPT !.lastOp = "unknown"]
    ELSE [b EXCEPT !.occupiedSeats = @ \ {b.patrons[sessionId]},
                   !.patrons = [id \in DOMAIN b.patrons \ {sessionId} |-> b.patrons[id]],
                   !.lastOp = "left"]

\* the loop of _reconcileSessions over staleIds (1307-1310)
RECURSIVE TerminateAll(_, _)
TerminateAll(b, staleIds) ==
    IF staleIds = {} THEN b
    ELSE LET sessionId == CHOOSE id \in staleIds : TRUE
         IN  TerminateAll(HandleSessionTerminated(b, sessionId), staleIds \ {sessionId})

\* _reconcileSessions() (1293-1311)
ReconcileSessions(b) ==
    LET replayIds == b.replaySessionIds
        cleared   == [b EXCEPT !.replayTimer = FALSE, !.replaySessionIds = NullIds,
                               !.lastOp = "reconciled"]
    IN  IF replayIds.isNull THEN cleared
        ELSE [TerminateAll(cleared, {id \in DOMAIN b.patrons : id \notin replayIds.ids})
                 EXCEPT !.lastOp = "reconciled"]

\* the 'connection.open' listener (1233-1244)
BarOpen ==
    /\ bar.lastOp # "open"
    /\ bar' = [bar EXCEPT !.replaySessionIds = [isNull |-> FALSE, ids |-> {}],
                          !.replayTimer = TRUE,
                          !.lastOp = "open", !.lastId = 0, !.removed = {}]

\* the 'connection.close' listener (1246-1255)
BarClose ==
    /\ bar.lastOp # "close"
    /\ bar' = [bar EXCEPT !.replaySessionIds = NullIds, !.replayTimer = FALSE,
                          !.lastOp = "close", !.lastId = 0, !.removed = {}]

\* the 'session.update' listener (1257-1263)
BarSessionUpdate(id, state, seat) ==
    /\ seat \in SeatChoices(bar)
    /\ bar' = [HandleSessionUpdate(
                  [bar EXCEPT !.replaySessionIds =
                                 IF @.isNull THEN @ ELSE [@ EXCEPT !.ids = @ \cup {id}]],
                  id, state, seat)
                 EXCEPT !.lastId = id, !.removed = {}]

\* the 'session.terminated' listener (1265-1267)
BarSessionTerminated(id) ==
    bar' = [HandleSessionTerminated(bar, id) EXCEPT !.lastId = id, !.removed = {}]

\* the replay timer of 'connection.open' fires (1241-1243)
BarReplayFire ==
    /\ bar.replayTimer
    /\ bar' = [ReconcileSessions(bar) EXCEPT
                  !.lastId = 0,
                  !.removed = DOMAIN bar.patrons \ DOMAIN ReconcileSessions(bar).patrons]

\* Shift+D with no patron in the bar (1206-1215)
BarDemoKey(seat) ==
    /\ DOMAIN bar.patrons = {}
    /\ seat \in SeatChoices(bar)
    /\ bar' = [HandleSessionUpdate(bar, DemoId, "active", seat) EXCEPT
                  !.lastId = DemoId, !.removed = {}]

InitBar == InitErr /\ DOMAIN sessions = {}

barRest == <<ringVars, rawVars, lbVars, smVars, fwVars, gwVars, fileCall, dirFiles,
             dirResult, inbound, fwTrace, server, issuer, erred, received,
             thrown, wsService>>

NextBar ==
    \/ BarOpen /\ UNCHANGED barRest
    \/ BarClose /\ UNCHANGED barRest
    \/ \E id \in BarSessions, state \in PayloadStates, seat \in SEATS \cup {0} :
          BarSessionUpdate(id, state, seat) /\ UNCHANGED barRest
    \/ \E id \in BarSessions : BarSessionTerminated(id) /\ UNCHANGED barRest
    \/ BarReplayFire /\ UNCHANGED barRest
    \/ \E seat \in SEATS \cup {0} : BarDemoKey(seat) /\ UNCHANGED barRest

SpecBar == InitBar /\ [][NextBar]_vars

-----------------------------------------------------------------------------
(* Claims C1-C2: the bounded buffers *)

\* C1 (SpecRing): after n writes to a RingBuffer of capacity C >= 1, readAll()
\* is the last min(n, C) items written, oldest first; after more than C writes
\* its length is C; size never exceeds C.
C1_ReadAllIsLastWrites ==
    /\ rbSize <= rbCapacity
    /\ RingReadAll = LastN(rbWritten, Min(Len(rbWritten), rbCapacity))
    /\ Len(rbWritten) > rbCapacity => Len(RingReadAll) = rbCapacity

\* a buffer of capacity 3 that wrapped: five writes, the last three read back
C1_Witness ==
    /\ rbCapacity = 3
    /\ Len(rbWritten) = 5
    /\ rbHead = 2
    /\ RingReadAll = <<"a", "b", "b">>

\* C2 (SpecRaw): after any writes, totalBytes <= maxBytes or exactly one chunk
\* is retained, and totalBytes is the sum of the byte lengths of the retained
\* chunks.
C2_ByteCapOrSingleChunk ==
    /\ rawTotalBytes <= rawMaxBytes \/ Len(rawChunks) = 1
    /\ rawTotalBytes = SumBytes(rawChunks)

\* a write evicted every older chunk and still exceeds the cap on its own
C2_Witness ==
    /\ Len(rawWritten) >= 2
    /\ Len(rawChunks) = 1
    /\ rawTotalBytes > rawMaxBytes

-----------------------------------------------------------------------------
(* Claims C3-C6: LineBuffer *)

\* C3 (SpecLB): as long as no flush timer fired and no flush or destroy ran,
\* the lines emitted and the pending partial after feeding chunks are those of
\* feeding the concatenation of the chunks whole to a fresh LineBuffer.
C3_ChunkingInvariant ==
    lbQuiet =>
        \A st \in Streams :
            LET whole == FeedSplit(<<>>, lbFed[st])
            IN  /\ lbLines = EmitAll(<<>>, st, whole.lines)
                /\ rawPartials[st] = whole.partial

\* "J\rJ\n" fed in at least two chunks (no chunk is that long) emitted "J"
C3_Witness ==
    /\ lbQuiet
    /\ lbFed["stdout"] = <<"J", CR, "J", LF>>
    /\ lbLines = << <<"stdout", <<"J">>>> >>
    /\ rawPartials["stdout"] = <<>>

\* the segment SpecSeg fed (the text before the newline), once it is fed
FedSegment == SubSeq(lbFed["stdout"], 1, Len(lbFed["stdout"]) - 1)

SegmentFed == lbInput = <<>> /\ Len(lbFed["stdout"]) > 0

\* the line the feed emitted, <<>> when it emitted none
EmittedLine == IF lbLines = <<>> THEN <<>> ELSE lbLines[1][2]

\* C4 (SpecSeg): the line emitted for a newline-terminated segment is the text
\* after the last embedded carriage return of the segment, one trailing
\* carriage return dropped first (and the ANSI filter applied to that text);
\* nothing is emitted when that text is empty.
C4_EmitsTextAfterLastCR ==
    SegmentFed =>
        /\ Len(lbLines) <= 1
        /\ EmittedLine = stripNonSGR(AfterLastCR(TrimCR(FedSegment)))

\* s holds a complete OSC sequence: ESC ] ... (BEL | ESC \)
HasOSC(s) ==
    \E i \in 1..Len(s) :
        s[i] = ESC /\ i + 1 <= Len(s) /\ s[i + 1] = "]" /\ OSCEnd(s, i + 2) # 0

\* s holds a CSI sequence whose final byte is a letter other than m
HasNonSGRCSI(s) ==
    \E i \in 1..Len(s) : CSIEnd(s, i, NonSGRFinalBytes \cup {"M"}) # 0

\* s holds ESC followed by one character that opens neither a CSI nor an OSC
HasSingleEscape(s) ==
    \E i \in 1..Len(s) : s[i] = ESC /\ i + 1 <= Len(s) /\ s[i + 1] \notin {"[", "]"}

RECURSIVE SGRFrom(_, _)
\* the SGR sequences (ESC [ params m) of s from index i on, in order
SGRFrom(s, i) ==
    IF i > Len(s) THEN <<>>
    ELSE IF CSIEnd(s, i, {"m"}) # 0
         THEN <<SubSeq(s, i, CSIEnd(s, i, {"m"}))>> \o SGRFrom(s, CSIEnd(s, i, {"m"}) + 1)
         ELSE SGRFrom(s, i + 1)

SGRSequences(s) == SGRFrom(s, 1)

\* s holds ESC ] (the start of an OSC, whose payload is not display text)
HasOSCStart(s) == \E i \in 1..Len(s) : s[i] = ESC /\ i + 1 <= Len(s) /\ s[i + 1] = "]"

\* C5 (SpecSeg): an emitted line holds no OSC sequence, no non-SGR CSI sequence
\* and no single-character escape, and it keeps the SGR sequences of its
\* segment unchanged (compared for segments with no carriage-return overwrite
\* and no OSC payload, which legitimately drop text).
C5_OnlySGRSurvives ==
    SegmentFed =>
        /\ ~HasOSC(EmittedLine)
        /\ ~HasNonSGRCSI(EmittedLine)
        /\ ~HasSingleEscape(EmittedLine)
        /\ (CR \notin {FedSegment[i] : i \in 1..Len(FedSegment)} /\ ~HasOSCStart(FedSegment))
              => SGRSequences(EmittedLine) = SGRSequences(FedSegment)

\* C6 (SpecLB): no invocation of the line callback carries an empty string,
\* whether it comes from feed, from the flush timer or from flush.
C6_NoEmptyLine == \A k \in 1..Len(lbLines) : lbLines[k][2] # <<>>

\* "J\r\r\n" was fed: its segment is empty after the carriage-return collapse,
\* and nothing was emitted
C6_Witness ==
    /\ lbFed["stdout"] = <<"J", CR, CR, LF>>
    /\ rawPartials["stdout"] = <<>>
    /\ lbLines = <<>>

-----------------------------------------------------------------------------
(* Claims C7-C10: session quota, create failures, kill *)

CreateOps == {"ws.create", "rest.create"}
KillOps == {"ws.kill", "rest.delete"}

\* C7 (Spec): in every reachable state the number of non-terminated sessions is
\* at most the quota.
C7_QuotaRespected == Cardinality(NonTerminated) <= maxSessions

\* the quota is reached again by a session created after an earlier one ended
C7_Witness == Cardinality(NonTerminated) = maxSessions /\ nextId > maxSessions

\* C8 (Spec): a create (WebSocket or REST) with a valid workDir issued when the
\* quota is reached fails with the quota error, spawns no process and leaves
\* the registry unchanged.
C8_QuotaErrorBeforeSpawn ==
    [][(/\ lastCall'.op \in CreateOps
        /\ IsDirectory(lastCall'.workDir)
        /\ Cardinality(NonTerminated) >= maxSessions)
       => (/\ lastCall'.err = "MAX_SESSIONS"
           /\ sessions' = sessions
           /\ procs' = procs
           /\ nextId' = nextId)]_vars

\* a create over the WebSocket was refused with the quota error
C8_Witness ==
    /\ lastCall.op = "ws.create"
    /\ lastCall.err = "MAX_SESSIONS"
    /\ lastCall.reply = "MAX_SESSIONS"
    /\ Cardinality(NonTerminated) = maxSessions

\* C9 (Spec): a create with a workDir that does not exist fails with the
\* workDir-not-found error, spawns no process and leaves the registry (and so
\* the number of active sessions) unchanged.
C9_MissingWorkDirRejected ==
    [][(/\ lastCall'.op \in CreateOps
        /\ lastCall'.workDir # ""
        /\ ~ExistsSync(lastCall'.workDir))
       => (/\ lastCall'.err = "WORKDIR_NOT_FOUND"
           /\ sessions' = sessions
           /\ procs' = procs
           /\ nextId' = nextId)]_vars

\* a create with a missing workDir was refused while the registry was full
C9_Witness ==
    /\ lastCall.op \in CreateOps
    /\ lastCall.err = "WORKDIR_NOT_FOUND"
    /\ Cardinality(DOMAIN sessions) = maxSessions

\* the id a kill step targets is unknown or already terminated before the step
KillTargetGone(id) ==
    IF id \in DOMAIN sessions THEN sessions[id].state = "terminated" ELSE TRUE

\* C10 (Spec): kill(id) on an unknown or already-terminated id changes nothing
\* (session records, processes, timers, events), and at most one termination
\* event is ever emitted per session, whatever the interleaving of kill
\* commands, REST deletes, killAll and process exits.
C10_KillIdempotent ==
    /\ [](\A id \in Ids : exitEvents[id] <= 1)
    /\ [][(lastCall'.op \in KillOps /\ lastCall'.err = "OK"
             /\ KillTargetGone(lastCall'.id))
          => (/\ sessions' = sessions
              /\ procs' = procs
              /\ exitEvents' = exitEvents
              /\ purgeTimers' = purgeTimers
              /\ autoRunTimers' = autoRunTimers)]_vars

\* a kill command arrived for a session that had already exited and emitted its
\* one termination event
C10_Witness ==
    /\ lastCall.op = "ws.kill"
    /\ lastCall.id \in DOMAIN sessions
    /\ sessions[lastCall.id].state = "terminated"
    /\ sessions[lastCall.id].exitCode # "null"
    /\ exitEvents[lastCall.id] = 1

-----------------------------------------------------------------------------
(* Claims C11-C12: the session life cycle *)

\* C11 (Spec): session state is monotonic.  A session whose state is
\* 'terminated' (by kill or by process exit) never becomes active again, and
\* once a session that exited has been purged from the registry its id never
\* reappears there.
C11_StateMonotonic ==
    [][\A id \in Ids :
         /\ (/\ id \in DOMAIN sessions
             /\ sessions[id].state = "terminated"
             /\ id \in DOMAIN sessions') => sessions'[id].state = "terminated"
         /\ (exitEvents[id] >= 1 /\ id \notin DOMAIN sessions)
                => id \notin DOMAIN sessions']_vars

\* session 1 exited and was purged, and a later create registered session 2
C11_Witness ==
    /\ exitEvents[1] >= 1
    /\ 1 \notin DOMAIN sessions
    /\ 2 \in DOMAIN sessions
    /\ sessions[2].state = "active"

\* kill(id) went past its early returns: the session is marked terminated and
\* its process was sent the graceful signal
Killed(id) ==
    /\ id \in DOMAIN sessions
    /\ sessions[id].state = "terminated"
    /\ "SIGTERM" \in procs[id].signals

\* C12 (FairSpec): after kill(id) on an active session whose process
\* eventually exits, a session-terminated event for id eventually occurs;
\* get(id) returns the session, state terminated, right after the kill and
\* during the grace window (while the removal timer is pending); the session
\* leaves the registry only when that timer fires, and eventually get(id)
\* returns nothing.
C12_KillThenPurged ==
    /\ [][\A id \in Ids :
            (KillApplies(id) /\ lastCall'.op \in KillOps /\ lastCall'.id = id)
               => Killed(id)']_vars
    /\ [](\A id \in purgeTimers :
            id \in DOMAIN sessions /\ sessions[id].state = "terminated")
    /\ [][\A id \in DOMAIN sessions :
            id \notin DOMAIN sessions'
               => id \in purgeTimers /\ lastCall'.op = "timer.purge"]_vars
    /\ \A id \in Ids : Killed(id) ~> (exitEvents[id] >= 1)
    /\ \A id \in Ids : Killed(id) ~> (id \notin DOMAIN sessions)

\* session 1 was killed while active and its process has exited: the grace
\* window is running and get(1) still returns the terminated session
C12_Witness ==
    /\ Killed(1)
    /\ exitEvents[1] = 1
    /\ 1 \in purgeTimers

-----------------------------------------------------------------------------
(* Claims C17, C19: error reporting of the two gateways *)

\* C17 (Spec): on the REST surface POST /sessions answers 429 when the quota
\* is reached and 400 for every invalid workDir (missing, nonexistent, or
\* existing but not a directory); GET and DELETE /sessions/:id answer 404
\* for an id that is not in the registry.
C17_RestStatusMapping ==
    /\ (lastCall.op = "rest.create" /\ lastCall.err = "MAX_SESSIONS")
          => lastCall.reply = "429"
    /\ (/\ lastCall.op = "rest.create"
        /\ \/ lastCall.workDir = ""
           \/ lastCall.err \in {"WORKDIR_NOT_FOUND", "NOT_A_DIRECTORY"})
          => lastCall.reply = "400"
    /\ (lastCall.op \in {"rest.get", "rest.delete"} /\ lastCall.id \notin DOMAIN sessions)
          => lastCall.reply = "404"

\* C19 (Spec): a pty spawn failure is reported under the wire code
\* SPAWN_FAILED, and every validation failure of create (workDir missing,
\* nonexistent, not a directory, unknown agentType) under another wire code.
C19_SpawnFailedDistinct ==
    lastCall.op = "ws.create" =>
        /\ lastCall.err = "SPAWN_FAILED" => lastCall.reply = "SPAWN_FAILED"
        /\ (\/ lastCall.workDir = ""
            \/ lastCall.err \in {"WORKDIR_NOT_FOUND", "NOT_A_DIRECTORY",
                                 "UNKNOWN_AGENT"})
              => lastCall.reply # "SPAWN_FAILED"

-----------------------------------------------------------------------------
(* Claim C18: the two create surfaces *)

\* every input of a create request
CreateInputs == WorkDirs \X (AgentTypes \cup {NoAgentType}) \X BOOLEAN

\* C18 (Spec): creating a session through POST /sessions and through the
\* WebSocket session.create command with the same workDir and agentType has
\* the same effect.  Every step one surface takes is the step the other
\* surface's handler takes from the same state (same registry change, same
\* session.update broadcast, same watch), the same inputs fail on both, and
\* a successful create on either leaves the new session registered,
\* broadcast once and watched.
C18_CreateSurfacesAgree ==
    [][lastCall'.op \in CreateOps =>
         \A in \in CreateInputs :
           LET ws   == WsCreateCall(in[1], in[2], in[3])
               rest == RestCreateCall(in[1], in[2], in[3])
           IN  (WsCreate(in[1], in[2], in[3]) \/ RestCreate(in[1], in[2], in[3]))
                 => /\ WsCreateEffect(in[1], in[2], in[3])
                    /\ RestCreateEffect(in[1], in[2], in[3])
                    /\ (ws.reply = "-") <=> (rest.reply = "201")
                    /\ (ws.reply = "-" \/ rest.reply = "201")
                         => /\ nextId' \in DOMAIN sessions' \ DOMAIN sessions
                            /\ updateEvents'[nextId'] = updateEvents[nextId'] + 1
                            /\ nextId' \in watchers']_vars

\* both surfaces have created a session: session 1 through the WebSocket,
\* session 2 through REST after session 1 was purged
C18_Witness ==
    /\ lastCall.op = "rest.create" /\ lastCall.reply = "201"
    /\ updateEvents = [id \in Ids |-> IF id \in {1, 2} THEN 1 ELSE 0]
    /\ 2 \in watchers

-----------------------------------------------------------------------------
(* Claim C20: FileWatcher.unwatch *)

\* C20 (SpecFW): unwatch(id) is idempotent and total.  On an id without an
\* entry it changes nothing; when it returns, the registry has no entry and
\* no armed debounce timer for id; a second unwatch(id) right after the first
\* changes nothing.
C20_UnwatchIdempotent ==
    [][\A id \in Ids :
         (lastCall'.op = "fw.unwatch" /\ lastCall'.id = id) =>
            /\ id \notin watchers => UNCHANGED <<watchers, fwVars>>
            /\ id \notin watchers' /\ id \notin debounceTimers'
            /\ (lastCall.op = "fw.unwatch" /\ lastCall.id = id)
                  => UNCHANGED <<watchers, fwVars>>]_vars

\* unwatch(1) found an entry with an armed debounce timer and removed both,
\* while session 2 is still watched
C20_Witness ==
    /\ lastCall.op = "fw.unwatch" /\ lastCall.id = 1
    /\ lastCall.err = "entry" /\ lastCall.reply = "armed"
    /\ 1 \notin watchers /\ 1 \notin debounceTimers
    /\ 2 \in watchers

-----------------------------------------------------------------------------
(* Claim C13: the file commands stay inside workDir *)

\* abs is root or a path-segment descendant of root
InsideDir(abs, root) == abs = root \/ StartsWith(abs, root \o <<"/">>)

\* C13 (SpecFile): for file.read, file.write, file.create and file.delete
\* every filesystem call targets the session's workDir or a path-segment
\* descendant of it, and a requested path that resolves outside workDir is
\* answered with an error without any filesystem call.
C13_FileOpsInsideWorkDir ==
    (/\ fileCall.op \in FileOps
     /\ fileCall.reply # "pending"
     /\ fileCall.id \in DOMAIN sessions) =>
        LET root == WorkDirChars(sessions[fileCall.id].workDir)
        IN  /\ \A k \in 1..Len(fileCall.fs) : InsideDir(fileCall.fs[k][2], root)
            /\ ~InsideDir(Resolve(root, fileCall.filePath), root)
                  => fileCall.reply = "error" /\ fileCall.fs = <<>>

-----------------------------------------------------------------------------
(* Claims C14-C16: the WebSocket gateway *)

\* the session and directory events
EventTypes == {"session.update", "session.output", "terminal.output",
               "session.terminated", "files.update"}

\* the step sends a message of this type about session id
Sends(type, id) == \E k \in 1..Len(sent') : sent'[k].type = type /\ sent'[k].id = id

\* C14 (SpecGw): every session and directory event (session.update on a
\* create through the WebSocket or REST, session.output, terminal.output,
\* session.terminated, files.update) is sent to every connection that is open
\* at the moment of the event, not only to the one that issued the command;
\* and each of these steps does send its event.
C14_EventsReachEveryObserver ==
    [][lastCall'.op # "ws.connect" =>
         /\ \A k \in 1..Len(sent') :
               sent'[k].type \in EventTypes => sent'[k].to = OpenConns
         /\ (lastCall'.op \in CreateOps /\ lastCall'.err = "OK")
               => Sends("session.update", lastCall'.id)
         /\ lastCall'.op = "pty.data" => Sends("terminal.output", lastCall'.id)
         /\ lastCall'.op = "timer.lineFlush" => Sends("session.output", lastCall'.id)
         /\ lastCall'.op = "proc.exit"
               => \E id \in Ids : /\ exitEvents'[id] = exitEvents[id] + 1
                                   /\ Sends("session.terminated", id)
         /\ (lastCall'.op = "fw.counted" /\ lastCall'.err = "OK")
               => Sends("files.update", lastCall'.id)]_vars

\* a create through REST was broadcast to both open connections
C14_Witness ==
    /\ lastCall.op = "rest.create"
    /\ OpenConns = {1, 2}
    /\ sent = <<[type |-> "session.update", id |-> lastCall.id, dims |-> <<>>,
                 to |-> {1, 2}]>>

\* the place of a message type in the replay
ReplayRank(type) ==
    CASE type = "session.update" -> 1
      [] type = "terminal.replay" -> 2
      [] type = "files.update" -> 3
      [] OTHER -> 0

\* how many messages of this type about session id the last step sent
SentCount(type, id) ==
    Cardinality({k \in 1..Len(sent) : sent[k].type = type /\ sent[k].id = id})

C16_HeartbeatDropsSilent ==
    [][lastCall'.op = "timer.heartbeat" =>
         \A c \in Conns :
           clients[c] = "open" =>
              /\ pinged[c] => clients'[c] = "closed"
              /\ ~pinged[c] => clients'[c] = "open"]_vars

\* a tick terminated connection 1, whose ping was unanswered, and pinged
\* connection 2 again
C16_Witness ==
    /\ lastCall.op = "timer.heartbeat"
    /\ clients[1] = "closed" /\ pinged[1]
    /\ clients[2] = "open" /\ pinged[2] /\ ~alive[2]

-----------------------------------------------------------------------------
(* Claim C23: RawReplayBuffer.read *)

\* C23 (SpecRaw): read() is the concatenation, in write order, of a
\* contiguous suffix of the chunks written so far, and once something was
\* written that suffix contains the most recently written chunk.
C23_ReadIsSuffixOfWrites ==
    \E n \in 0..Len(rawWritten) :
        /\ rawChunks = LastN(rawWritten, n)
        /\ RawRead = Concat(LastN(rawWritten, n))
        /\ rawWritten # <<>> => n >= 1

\* three chunks were written, the oldest was evicted and the two newest are
\* read back
C23_Witness ==
    /\ Len(rawWritten) = 3
    /\ Len(rawChunks) = 2
    /\ RawRead = rawWritten[2] \o rawWritten[3]
    /\ rawWritten[1] # <<>>

-----------------------------------------------------------------------------
(* Claim C25: the order of the LineBuffer cleanup pipeline *)

\* the pipeline in the stated order: strip one trailing carriage return, keep
\* the text after the last embedded carriage return, run the ANSI filter
StatedPipeline(segment) == stripNonSGR(handleCR(TrimCR(segment)))

\* C25 (SpecSeg): for every completed segment over the alphabet (ESC,
\* carriage return, '[', ']', BEL, backslash, letters, a digit) the lines
\* LineBuffer emits are the result of the stated pipeline, when it is not
\* empty, and nothing otherwise.
C25_PipelineInStatedOrder ==
    SegmentFed =>
        lbLines = IF StatedPipeline(FedSegment) = <<>> THEN <<>>
                  ELSE << <<"stdout", StatedPipeline(FedSegment)>> >>

-----------------------------------------------------------------------------
(* Claim C30: the LineBuffer flush timers *)

\* a stream's timer is armed: the Map holds a handle for it
Armed(stream) == stream \in timers

\* at most one callback is scheduled per stream, it is the one the Map holds,
\* and it is there exactly when the pending partial is non-empty
TimerMatchesPartial ==
    \A stream \in Streams :
        /\ lbScheduled[stream] <= 1
        /\ Armed(stream) <=> lbScheduled[stream] = 1
        /\ Armed(stream) <=> rawPartials[stream] # <<>>

\* flush and a timer fire leave the stream's partial empty and no timer armed;
\* destroy leaves no timer and no partial for any stream
TimerCleared ==
    /\ \A stream \in Streams :
           LbFlush(stream) \/ LbTimerFire(stream) =>
               /\ rawPartials'[stream] = <<>>
               /\ stream \notin timers'
               /\ lbScheduled'[stream] = 0
    /\ LbDestroy =>
           \A stream \in Streams :
               /\ rawPartials'[stream] = <<>>
               /\ stream \notin timers'
               /\ lbScheduled'[stream] = 0

\* C30 (FairLB): a stream has at most one flush timer armed, armed exactly
\* when its pending partial is non-empty; flush and a timer fire leave the
\* partial empty with no timer armed, destroy leaves no timer and no partial
\* for any stream; and a pending partial is eventually emitted or discarded
\* (the feeds of a run are finitely many).
C30_TimerIffPartial ==
    /\ []TimerMatchesPartial
    /\ [][TimerCleared]_vars
    /\ \A stream \in Streams :
           (rawPartials[stream] # <<>>) ~> (rawPartials[stream] = <<>>)

\* a partial was pending with its timer armed, a further feed re-armed the
\* timer, and the timer then fired and emitted the partial
C30_Witness ==
    /\ lbFed["stdout"] = <<"[", "J">>
    /\ ~lbQuiet
    /\ lbLines = << <<"stdout", <<"[", "J">> >> >>
    /\ rawPartials["stdout"] = <<>>
    /\ ~Armed("stdout")

-----------------------------------------------------------------------------
(* Claim C27: the forced-kill timer *)

\* the forced-termination action can still be due for session id: its timer is
\* armed
ForceKillArmed(id) == id \in DOMAIN sessions /\ sessions[id].forceKillTimer

\* the process of session id was never sent the forced signal and its exit
\* handler has not run
NotForcedNorExited(id) ==
    /\ id \in DOMAIN procs
    /\ procs[id].alive
    /\ "SIGKILL" \notin procs[id].signals
    /\ exitEvents[id] = 0

\* C27 (Spec): after kill(id) on an active session the forced-termination
\* action is performed at most once, and only on a process that has not
\* exited when the timer elapses: the timer is armed only for a killed
\* session whose exit handler has not run and that was never force-killed,
\* every firing finds the process in that condition, and no other step sends
\* the forced signal.
C27_ForcedKillAtMostOnce ==
    /\ [](\A id \in Ids : ForceKillArmed(id) => Killed(id) /\ NotForcedNorExited(id))
    /\ [][\A id \in Ids : ForceKillFire(id) => NotForcedNorExited(id)]_vars
    /\ [][\A id \in DOMAIN procs :
            (/\ id \in DOMAIN procs'
             /\ "SIGKILL" \in procs'[id].signals
             /\ "SIGKILL" \notin procs[id].signals)
               => ForceKillFire(id)]_vars

\* session 1 was killed, its forced-kill timer fired on the live process, and
\* the process then exited
C27_Witness ==
    /\ Killed(1)
    /\ "SIGKILL" \in procs[1].signals
    /\ exitEvents[1] = 1
    /\ ~ForceKillArmed(1)

-----------------------------------------------------------------------------
(* Claim C28: the auto-launch timer *)

\* cmd + '\n' for the session's agent, the text the auto-launch writes
AutoRunText(id) == <<sessions[id].agentType, LF>>

\* the session is in the registry with state 'active'
Active(id) == id \in DOMAIN sessions /\ sessions[id].state = "active"

\* C28 (Spec): the auto-launch command is written to a session's pty at most
\* once, and only if the session is still active when the settle delay
\* elapses: a firing on a session that was killed or whose process exited
\* writes nothing, and every write finds the session active and the pty
\* without an earlier write.
C28_AutoRunOnceIfActive ==
    /\ [](\A id \in DOMAIN procs :
            procs[id].written \in {<<>>, <<AutoRunText(id)>>})
    /\ [][\A id \in Ids :
            (AutoRunFire(id) /\ ~Active(id)) => procs' = procs]_vars
    /\ [][\A id \in DOMAIN procs :
            (id \in DOMAIN procs' /\ procs'[id].written # procs[id].written)
               => /\ Active(id)
                  /\ id \in autoRunTimers /\ id \notin autoRunTimers'
                  /\ procs[id].written = <<>>
                  /\ procs'[id].written = <<AutoRunText(id)>>]_vars

\* the timer of session 1 fired while it was active and wrote the command;
\* the session was killed afterwards
C28_Witness ==
    /\ Killed(1)
    /\ procs[1].written = <<AutoRunText(1)>>
    /\ 1 \notin autoRunTimers

\* the timer of session 1 fired after the session was killed and wrote nothing
C28_WitnessSkipped ==
    /\ Killed(1)
    /\ procs[1].written = <<>>
    /\ 1 \notin autoRunTimers

-----------------------------------------------------------------------------
(* Claim C22: sendPrompt and writeRaw *)

\* what a write of text to session id comes to: appended to the pty of an
\* active session and to no other; for an unknown id the not-found error and
\* for a terminated session the terminated error, with no pty written to
WriteOutcome(id, text) ==
    /\ Active(id) =>
          /\ procs' = [procs EXCEPT ![id].written = Append(@, text)]
          /\ lastCall'.err = "OK"
    /\ id \notin DOMAIN sessions =>
          /\ procs' = procs
          /\ lastCall'.err = "SESSION_NOT_FOUND"
    /\ (id \in DOMAIN sessions /\ sessions[id].state = "terminated") =>
          /\ procs' = procs
          /\ lastCall'.err = "SESSION_TERMINATED"

\* C22 (SpecPty): for an active session sendPrompt(id, text) writes exactly
\* text followed by one newline to the session's pty and writeRaw(id, data)
\* writes exactly data; for an unknown id both fail with SESSION_NOT_FOUND and
\* for a terminated session with SESSION_TERMINATED, and a failed call writes
\* nothing to any pty.
C22_PromptAndRawWrites ==
    [][\A id \in Ids :
         /\ lastCall'.op = "sm.sendPrompt" =>
               \A prompt \in Prompts :
                   SendPrompt(id, prompt) => WriteOutcome(id, prompt \o <<LF>>)
         /\ lastCall'.op = "sm.writeRaw" =>
               \A data \in RawInputs :
                   WriteRaw(id, data) => WriteOutcome(id, data)]_vars

\* session 1 was sent the prompt "p" and then the raw input "d" while active
C22_Witness ==
    /\ Active(1)
    /\ lastCall.op = "sm.writeRaw" /\ lastCall.err = "OK"
    /\ procs[1].written = << <<"p", LF>>, <<"d">> >>

\* a prompt for session 1 was refused after the session was killed
C22_WitnessTerminated ==
    /\ Killed(1)
    /\ lastCall.op = "sm.sendPrompt" /\ lastCall.id = 1
    /\ lastCall.err = "SESSION_TERMINATED"
    /\ procs[1].written = <<>>

-----------------------------------------------------------------------------
(* Claims C26, C29: the exit handler and the timers of a session *)

\* session id was torn down: killed, or its exit handler ran
TornDown(id) == exitEvents[id] > 0 \/ (id <= nextId /\ ~Active(id))

\* one of the session's three timers is armed
SessionTimerArmed(id) ==
    \/ id \in pendingLine
    \/ ForceKillArmed(id)
    \/ id \in autoRunTimers

\* one of the session's three timers fires
SessionTimerFires(id) ==
    \/ LineFlushFire(id)
    \/ ForceKillFire(id)
    \/ AutoRunFire(id)

\* the exit handler of session id runs in the step
ExitHandlerRuns(id) == exitEvents'[id] = exitEvents[id] + 1

\* what the exit handler of session id sends: the flushed partial line if one
\* was pending, then the termination event, and nothing else
ExitMessages(id) ==
    /\ Len(sent') = (IF id \in pendingLine THEN 2 ELSE 1)
    /\ sent'[Len(sent')].type = "session.terminated" /\ sent'[Len(sent')].id = id
    /\ id \in pendingLine => sent'[1].type = "session.output" /\ sent'[1].id = id

\* C26 (SpecPty): on process exit the pending partial line is flushed before
\* the termination event is emitted, and no session-output event of the
\* session follows it; the handler leaves the session in the registry, marked
\* terminated with its exit code, its line-flush and forced-kill timers not
\* armed and the removal timer armed; the session leaves the registry only
\* later, when that timer fires.
C26_ExitHandlerOrder ==
    /\ [][\A id \in Ids :
            ExitHandlerRuns(id) =>
                /\ ExitMessages(id)
                /\ id \notin pendingLine'
                /\ id \in DOMAIN sessions'
                /\ sessions'[id].state = "terminated"
                /\ sessions'[id].exitCode \in ExitCodes
                /\ ~sessions'[id].forceKillTimer
                /\ id \in purgeTimers']_vars
    /\ [][\A id \in Ids :
            Sends("session.output", id) /\ ~ExitHandlerRuns(id)
               => exitEvents[id] = 0]_vars
    /\ [][\A id \in DOMAIN sessions :
            id \notin DOMAIN sessions'
               => /\ exitEvents[id] = 1 /\ ~ExitHandlerRuns(id)
                  /\ id \in purgeTimers /\ lastCall'.op = "timer.purge"]_vars

\* session 1 was killed with a partial line pending and its process has just
\* exited: the line was flushed, then the termination event emitted, the
\* forced-kill timer is cancelled and the removal timer armed
C26_Witness ==
    /\ Killed(1)
    /\ lastCall.op = "proc.exit"
    /\ Len(sent) = 2
    /\ sent[1].type = "session.output" /\ sent[2].type = "session.terminated"
    /\ ~ForceKillArmed(1)
    /\ 1 \in purgeTimers

\* C29 (SpecPty): every timer a session owns (line-flush debounce,
\* forced-kill fallback, auto-launch delay) is cancelled when the session is
\* torn down: once the session was killed or has exited none of them is
\* armed, and none fires after the session left the registry.
C29_TimersCancelledOnTeardown ==
    /\ [](\A id \in Ids : TornDown(id) => ~SessionTimerArmed(id))
    /\ [][\A id \in Ids :
            (id <= nextId /\ id \notin DOMAIN sessions) => ~SessionTimerFires(id)]_vars

\* the same with "torn down" read as "the exit handler ran"
C29_NoTimerAfterExit ==
    \A id \in Ids : exitEvents[id] > 0 => ~SessionTimerArmed(id)

-----------------------------------------------------------------------------
(* Claim C21: the exclusion rule *)

\* the stated rule: a name of the fixed set, or a name starting with a dot
\* other than .claude
RuleExcludes(name) ==
    \/ name \in EXCLUDED_DIRS
    \/ Head(name) = "." /\ name # <<".", "claude">>

\* the files of the directory with no excluded name on their path
IncludedFiles == {f \in dirFiles : \A k \in 1..Len(f) : ~RuleExcludes(f[k])}

\* C21 (SpecDir): an entry is excluded when its name is in the fixed set or
\* starts with a dot, except .claude, whose files are kept unless their own
\* name is excluded; the watch reports, countFiles counts and buildFileTree
\* lists exactly the files with no excluded name on their path.
C21_SameExclusionRule ==
    /\ "watch" \in dirResult.ran => dirResult.watched = IncludedFiles
    /\ "count" \in dirResult.ran => dirResult.fileCount = Cardinality(IncludedFiles)
    /\ "tree" \in dirResult.ran => dirResult.tree = IncludedFiles

\* a directory with a file under .claude and a file under .git: the three
\* walks ran and kept the first only
C21_Witness ==
    /\ dirFiles = { <<<<".", "claude">>, <<"a", ".", "js">>>>,
                    <<<<".", "git">>, <<"src">>>> }
    /\ dirResult.ran = {"watch", "count", "tree"}
    /\ dirResult.watched = { <<<<".", "claude">>, <<"a", ".", "js">>>> }
    /\ dirResult.fileCount = 1
    /\ dirResult.tree = { <<<<".", "claude">>, <<"a", ".", "js">>>> }

-----------------------------------------------------------------------------
(* Claim C24: the router's validation *)

\* the message is not valid JSON, lacks type or payload (null has neither),
\* has a type the router does not know, has a null payload, or lacks a field
\* its kind requires
InvalidMessage(m) ==
    \/ m.json \in {"invalid", "null"}
    \/ m.type = "absent" \/ m.payload = "absent"
    \/ m.type \notin MessageTypes
    \/ m.payload = "null"
    \/ Required(m.type) \ m.fields # {}

\* the router has handled the message that arrived
Routed == inbound.reply \notin {"-", "pending"} \/ inbound.calls # "-"

\* C24 (SpecMsg): an inbound message that is not valid JSON, lacks type or
\* payload, has an unknown type, or lacks a field required by its kind
\* (including a null payload) is answered with INVALID_MESSAGE and is handed
\* to no callee.
C24_InvalidMessageRejected ==
    (Routed /\ InvalidMessage(inbound)) =>
        inbound.reply = "INVALID_MESSAGE" /\ inbound.calls = "-"

\* the part of C24 the router keeps: whatever the message, an invalid one is
\* handed to no callee
C24_NeverDelegated ==
    (Routed /\ InvalidMessage(inbound)) => inbound.calls = "-"

\* a 'session.create' with a null payload was answered with SPAWN_FAILED
C24_NullPayloadCreate ==
    /\ inbound.type = "session.create" /\ inbound.payload = "null"
    /\ inbound.reply = "SPAWN_FAILED"

-----------------------------------------------------------------------------
(* Claim C31: the order of a session's bytes, end to end *)

\* everything the session's pty has output so far
FullOutput == Concat(rawWritten)

\* C31 (SpecOrder): for every open connection, the data of the
\* terminal.replay it was sent on connecting followed by the data of the
\* terminal.output events sent to it since is a contiguous suffix of the
\* session's full pty output: nothing missing, nothing twice, nothing out of
\* order, whenever the connection was opened; and it reaches up to the
\* chunk the pty emitted last.
C31_ReplayThenOutputIsSuffix ==
    \A c \in Conns, id \in DOMAIN sessions :
        clients[c] = "open" =>
            /\ Len(received[c][id]) <= Len(FullOutput)
            /\ received[c][id] = LastN(FullOutput, Len(received[c][id]))
            /\ (lastCall.op = "pty.data" /\ lastCall.id = id) =>
                    Len(received[c][id]) >= Len(rawWritten[Len(rawWritten)])

\* connection 1 joined after the first chunk was evicted from a buffer that
\* held two: it was replayed the second chunk and then sent the third
C31_Witness ==
    /\ clients[1] = "open"
    /\ Len(rawWritten) = 3
    /\ rawWritten[1] # rawWritten[2]
    /\ received[1][1] = rawWritten[2] \o rawWritten[3]
    /\ lastCall.op = "pty.data"
    /\ rawChunks = <<rawWritten[3]>>

\* a connection that joined after the session was killed: no replay, and
\* the output of the dying process from then on
C31_WitnessAfterKill ==
    /\ clients[1] = "open"
    /\ 1 \in DOMAIN sessions /\ sessions[1].state = "terminated"
    /\ Len(rawWritten) = 2
    /\ received[1][1] = rawWritten[2]
    /\ rawWritten[1] # rawWritten[2]

-----------------------------------------------------------------------------
(* Claim C32: the debounce of filesystem events *)

\* the debounce callbacks of session id now pending: one while a window runs
PendingRecounts(id) == IF id \in debounceTimers THEN 1 ELSE 0

\* C32 (SpecBurst): a burst of filesystem events for a watched session, each
\* arriving while the debounce window of the one before is still running,
\* leaves exactly one debounce callback pending however many events it has;
\* the recount starts when that window elapses, so every burst that is over
\* started exactly one recount; every recount that resolved emitted exactly
\* one update; and each update carries the session id, fileCount and
\* drinkCount = floor(fileCount / fileCountRatio).
C32_OneRecountPerBurst ==
    /\ [](\A id \in Ids :
            /\ fwScheduled[id] = PendingRecounts(id)
            /\ fwTrace[id].recounts + fwScheduled[id] = fwTrace[id].bursts
            /\ Len(fwTrace[id].updates) + counting[id] = fwTrace[id].recounts
            /\ \A k \in 1..Len(fwTrace[id].updates) :
                  LET u == fwTrace[id].updates[k]
                  IN  /\ u.sessionId = id
                      /\ u.drinkCount * fileCountRatio <= u.fileCount
                      /\ u.fileCount < (u.drinkCount + 1) * fileCountRatio)
    /\ [][\A id \in Ids :
            /\ fwTrace'[id].recounts > fwTrace[id].recounts
                  => /\ fwTrace[id].events >= 1
                     /\ lastCall'.op = "timer.debounce"
                     /\ fwTrace'[id].recounts = fwTrace[id].recounts + 1
            /\ Len(fwTrace'[id].updates) > Len(fwTrace[id].updates)
                  => Len(fwTrace'[id].updates) = Len(fwTrace[id].updates) + 1]_vars

\* one burst of three events on session 1: one recount, which found 41 files,
\* and one update with 2 drinks
C32_Witness ==
    /\ fwTrace[1].bursts = 1
    /\ fwTrace[1].lastBurst = 3
    /\ fwTrace[1].recounts = 1
    /\ fwTrace[1].updates = <<[sessionId |-> 1, fileCount |-> 41, drinkCount |-> 2]>>
    /\ lastCall.op = "fw.counted"
    /\ fwScheduled[1] = 0 /\ counting[1] = 0

\* the window of a burst of three events is still running: one callback pending
C32_WitnessBurst ==
    /\ fwTrace[1].events = 3
    /\ fwScheduled[1] = 1

-----------------------------------------------------------------------------
(* Claim C33: the watch entry and its session *)

\* C33 (FairSpec): whenever a session terminates, by the kill command, the
\* REST delete, the exit of its process or the shutdown, its watch entry is
\* eventually disposed; and no watch entry exists for a session that is no
\* longer in the registry.
C33_WatchFollowsSession ==
    /\ [](\A id \in watchers : id \in DOMAIN sessions)
    /\ \A id \in Ids :
          (id \in DOMAIN sessions /\ sessions[id].state = "terminated")
             ~> (id \notin watchers)

\* the second half alone: no watch entry for a session purged from the registry
C33_NoWatchAfterPurge == \A id \in watchers : id \in DOMAIN sessions

\* the paths that do dispose the entry: after the kill command, the REST
\* delete and the shutdown the watch registry has no entry for the session
C33_KillPathsUnwatch ==
    [][/\ \A id \in Ids :
         (lastCall'.op \in {"ws.kill", "rest.delete"} /\ lastCall'.id = id
             /\ lastCall'.reply \notin {"404", "INVALID_MESSAGE"})
            => id \notin watchers'
       /\ lastCall'.op = "shutdown" => watchers' = {}]_vars

-----------------------------------------------------------------------------
(* Claim C34: unwatch and a recount in flight *)

\* C34 (SpecGw): once unwatch(id) has returned there is no latest-count
\* snapshot for id, and no recount that settles afterwards stores one or
\* has a files.update for id sent, also when that recount was already running
\* when unwatch was called.
C34_NoUpdateAfterUnwatch ==
    /\ [](\A id \in latestCounts : id \in watchers)
    /\ [][\A id \in Ids :
            (lastCall'.op = "fw.counted" /\ lastCall'.id = id /\ id \notin watchers)
               => /\ id \notin latestCounts'
                  /\ \A k \in 1..Len(sent') :
                        ~(sent'[k].type = "files.update" /\ sent'[k].id = id)]_vars

\* the snapshot half alone
C34_NoSnapshotAfterUnwatch == \A id \in latestCounts : id \in watchers

\* unwatch of a watched id itself leaves neither an entry, nor an armed
\* timer, nor a snapshot
C34_UnwatchClears ==
    [][\A id \in watchers :
         (lastCall'.op = "ws.kill" /\ lastCall'.id = id)
            => id \notin watchers' /\ id \notin debounceTimers' /\ id \notin latestCounts']_vars

-----------------------------------------------------------------------------
(* Claim C35: a command that fails *)

\* the router has just answered the pending message with an error reply
ErrorReplied == inbound.reply = "pending" /\ inbound'.reply \in ErrorReplies

\* C35 (SpecCmd): a command that is answered with an error reply leaves the
\* session registry, every session's state, dimensions, process and
\* buffers, the timers and the watch registry as they were; the error is
\* sent to the connection that issued the command and to no other; no
\* connection is closed by it, and a connection is closed by nothing but its
\* own close or the heartbeat, so that it goes on to issue commands.
C35_ErrorLeavesStateAlone ==
    /\ [][ErrorReplied =>
             /\ UNCHANGED <<sessions, procs, purgeTimers, autoRunTimers, watchers,
                            fwVars, exitEvents, updateEvents, resized, rawData,
                            pendingLine, ringVars, rawVars, lbVars>>
             /\ UNCHANGED <<clients, alive, pinged>>
             /\ sent' = IF clients[issuer] = "open"
                        THEN <<[type |-> "error", id |-> 0, dims |-> <<>>,
                                to |-> {issuer}]>>
                        ELSE <<>>]_vars
    /\ [][\A c \in Conns :
            (clients[c] = "open" /\ clients'[c] # "open")
               => lastCall'.op \in {"ws.close", "timer.heartbeat"}]_vars

\* connection 1 was sent an error reply and then created session 2 with its
\* next command
C35_Witness ==
    /\ 1 \in erred
    /\ issuer = 1
    /\ inbound.type = "session.create" /\ inbound.reply = "-"
    /\ lastCall.op = "ws.create" /\ lastCall.id = 2
    /\ clients[1] = "open" /\ clients[2] = "open"

\* a prompt for the terminated session 1 was refused while its buffer held
\* output
C35_WitnessTerminated ==
    /\ inbound.type = "session.prompt" /\ inbound.reply = "SESSION_TERMINATED"
    /\ rawData[1] # <<>>
    /\ procs[1].written = <<>>

\* a create was refused for the quota while session 1 was active
C35_WitnessQuota ==
    /\ inbound.type = "session.create" /\ inbound.reply = "MAX_SESSIONS"
    /\ 1 \in NonTerminated

\* a resize that the pty refused left the dimensions as they were
C35_WitnessResize ==
    /\ inbound.type = "terminal.resize" /\ inbound.reply = "INVALID_MESSAGE"
    /\ inbound.fields = Required("terminal.resize")
    /\ 1 \in NonTerminated
    /\ resized[1] = <<>>

-----------------------------------------------------------------------------
(* Claim C36: the shutdown *)

\* a shutdown signal has just been handled
ShutdownHandled == lastCall'.op = "shutdown"

\* C36 (FairShut): when shutdown has run, no session is active, every
\* session that was active has been sent the graceful kill, the watch
\* registry is empty and the gateway is closing or closed; the process
\* eventually exits, with code 0 only from the callback of the HTTP server's
\* close after the gateway closed, and with code 1 only from the forced-exit
\* timer; a shutdown that finds no active session kills nothing again, and
\* no session ever has more than one termination event.
C36_ShutdownExits ==
    /\ [][ShutdownHandled =>
             /\ NonTerminated' = {}
             /\ \A id \in NonTerminated : "SIGTERM" \in procs'[id].signals
             /\ watchers' = {}
             /\ server'.wss \in {"closing", "closed"}
             /\ NonTerminated = {} => UNCHANGED <<sessions, procs, exitEvents>>
             /\ sent' = <<>>]_vars
    /\ [](\A id \in Ids : exitEvents[id] <= 1)
    /\ [][(Running /\ server'.exited = "0")
             => server.wss = "closed" /\ server.http = "closing"]_vars
    /\ [][(Running /\ server'.exited = "1")
             => server.forceExit > 0 /\ server.http # "closed"]_vars
    /\ (server.signals >= 1) ~> (~Running)

\* the process exited cleanly after a shutdown that killed session 1
C36_Witness ==
    /\ server.exited = "0"
    /\ server.signals = 1
    /\ 1 \in DOMAIN sessions /\ "SIGTERM" \in procs[1].signals
    /\ watchers = {}

\* the gateway did not close in time: two signals, then the forced exit
C36_WitnessForced ==
    /\ server.exited = "1"
    /\ server.signals = 2
    /\ server.wss = "closing"
    /\ 1 \in DOMAIN sessions /\ exitEvents[1] = 1

-----------------------------------------------------------------------------
(* Claim C37: what consumes the quota *)

\* C37 (Spec): a create with a valid workDir is refused with the quota error
\* only when the number of non-terminated sessions equals the quota: sessions
\* that are terminated and still in the registry (killed and not yet exited,
\* or exited and within the grace window) do not count.
C37_TerminatedFreeQuota ==
    [][(/\ lastCall'.op \in CreateOps
        /\ IsDirectory(lastCall'.workDir)
        /\ lastCall'.err = "MAX_SESSIONS")
       => Cardinality(NonTerminated) = maxSessions]_vars

\* what the code compares with the quota: the size of the registry
C37_QuotaCountsRegistry ==
    [][(/\ lastCall'.op \in CreateOps
        /\ IsDirectory(lastCall'.workDir))
       => (lastCall'.err = "MAX_SESSIONS"
              <=> Cardinality(DOMAIN sessions) >= maxSessions)]_vars

\* a create was refused for the quota while the only session of the registry
\* was terminated
C37_RefusedByTerminated ==
    /\ lastCall.op \in CreateOps
    /\ lastCall.err = "MAX_SESSIONS"
    /\ NonTerminated = {}
    /\ DOMAIN sessions # {}

-----------------------------------------------------------------------------
(* Claim C38: the wire code and the text of the message *)

\* C38 (SpecErr): the wire code sent for a thrown error depends on the failure
\* alone: whatever workDir and agentType text the message of that failure
\* embeds, the code is the one that was sent.
C38_CodeIgnoresUserText ==
    thrown.code # "-" =>
        \A workDir \in ErrWorkDirs \ {""}, agentType \in ErrAgentTypes :
            WireCode(ErrorMessage(thrown.err, workDir, agentType)) = thrown.code

\* the code is the one of the failure when the embedded text holds none of
\* the substrings the catch block looks for
C38_PlainTextCode ==
    (/\ thrown.code # "-"
     /\ Markers(thrown.workDir) = {} /\ Markers(thrown.agentType) = {})
    => thrown.code = WireCode(ErrorMessage(thrown.err, "/dir", "bogus"))

\* an unknown agentType named "spawn" was answered with SPAWN_FAILED
C38_AgentTextPicksCode ==
    /\ thrown.err = "UNKNOWN_AGENT" /\ thrown.agentType = "spawn"
    /\ thrown.code = "SPAWN_FAILED"

\* a missing workDir whose path holds "Maximum sessions" was answered with
\* MAX_SESSIONS
C38_PathTextPicksCode ==
    /\ thrown.err = "WORKDIR_NOT_FOUND"
    /\ thrown.workDir = "/missing/Maximum sessions"
    /\ thrown.code = "MAX_SESSIONS"

-----------------------------------------------------------------------------
(* Claim C39: the reconnects of the WebSocketService *)

\* C39 (SpecWs): after disconnect(), and until the application connects again,
\* no reconnect timer is armed or pending and no socket is made.
C39_NoReconnectAfterDisconnect ==
    /\ [](wsService.stopped => wsService.pending = {} /\ wsService.ws = 0)
    /\ [][wsService.stopped /\ wsService'.stopped
             => /\ wsService'.pending = {}
                /\ Len(wsService'.sockets) = Len(wsService.sockets)]_vars

\* the other parts of C39: at most one reconnect timer is pending and it is
\* the stored one; a timer's delay is 1000 doubled some times and capped at
\* maxReconnectDelay; a timer armed while the previous delay was not used up
\* by an open waits twice as long, up to the cap; an open resets the delay
C39_OneTimerBoundedDelay ==
    /\ [](/\ Cardinality(wsService.pending) <= 1
          /\ \A t \in wsService.pending : t.handle = wsService.reconnectTimer
          /\ wsService.reconnectTimer # 0 => wsService.pending # {}
          /\ wsService.reconnectDelay \in
                {1000, 2000, 4000, 8000, 16000, maxReconnectDelay}
          /\ \A t \in wsService.pending : t.delay <= maxReconnectDelay)
    /\ [][/\ wsService'.lastOp = "open" => wsService'.reconnectDelay = 1000
          /\ wsService'.lastOp = "close-armed" =>
                /\ wsService'.lastDelay = wsService.reconnectDelay
                /\ wsService'.reconnectDelay =
                      IF wsService.reconnectDelay * 2 <= maxReconnectDelay
                      THEN wsService.reconnectDelay * 2 ELSE maxReconnectDelay]_vars

\* the close event of the socket disconnect() closed armed a reconnect timer
C39_ReconnectArmedAfterDisconnect ==
    /\ wsService.stopped
    /\ wsService.lastOp = "close-armed"
    /\ wsService.pending # {}

\* the timer armed after disconnect() fired and made a new socket
C39_ReconnectedAfterDisconnect ==
    /\ wsService.stopped
    /\ wsService.lastOp = "reconnect"
    /\ wsService.ws # 0

\* the delay reached the cap
C39_DelayCapped ==
    /\ wsService.reconnectDelay = maxReconnectDelay
    /\ wsService.lastOp = "close-armed"
    /\ wsService.lastDelay = maxReconnectDelay

-----------------------------------------------------------------------------
(* Claim C40: the seats of the BarScene *)

\* the seats the patrons hold
HeldSeats == {bar.patrons[id] : id \in DOMAIN bar.patrons}

\* C40 (SpecBar): under any sequence of session updates, terminations and
\* reconciliations no two patrons hold the same seat; occupiedSeats is exactly
\* the set of seats the patrons hold, so it has as many members as there are
\* patrons and never more than there are seats; and an update that found no
\* free seat leaves its session without a patron and the seats as they were.
C40_SeatsMatchPatrons ==
    /\ [](/\ \A a, b \in DOMAIN bar.patrons : a # b => bar.patrons[a] # bar.patrons[b]
          /\ bar.occupiedSeats = HeldSeats
          /\ bar.occupiedSeats \subseteq SEATS
          /\ Cardinality(bar.occupiedSeats) = Cardinality(DOMAIN bar.patrons)
          /\ Cardinality(bar.occupiedSeats) <= Cardinality(SEATS))
    /\ [][bar'.lastOp = "no-seat" =>
             /\ bar.occupiedSeats = SEATS
             /\ bar'.lastId \notin DOMAIN bar'.patrons
             /\ bar'.patrons = bar.patrons
             /\ bar'.occupiedSeats = bar.occupiedSeats]_vars

\* every seat is taken and the update of one more session found none
C40_Witness ==
    /\ bar.lastOp = "no-seat"
    /\ bar.lastId \in BarSessions
    /\ bar.occupiedSeats = SEATS
    /\ Cardinality(DOMAIN bar.patrons) = MaxSeats

\* a reconciliation removed a patron the replay did not name and kept one it
\* named
C40_WitnessReconciled ==
    /\ bar.lastOp = "reconciled"
    /\ bar.removed # {}
    /\ Cardinality(DOMAIN bar.patrons) = 1
    /\ Cardinality(bar.occupiedSeats) = 1

\* a seat freed by a termination was taken by another session
C40_WitnessReseated ==
    /\ bar.lastOp = "seated"
    /\ bar.lastId = MaxSeats + 1
    /\ bar.occupiedSeats = SEATS

=============================================================================
